---- MODULE Spec2Model ----
(***************************************************************************)
(* The checklist synchronisation handlers of HDFlowsheet-Cloud             *)
(* (api/checklists.js in its latest version, with backups) run against    *)
(* the tables declared by the repository's SQL scripts.  Every request is *)
(* handled by one action that models the whole handler.                   *)
(***************************************************************************)
EXTENDS Integers, Sequences, FiniteSets, TLC

VARIABLES
  checklists,    \* table checklists: rows [id, user_id, name, position, role]
  folders,       \* table checklist_folders: rows [id, checklist_id, name, sort_order]
  items,         \* table checklist_items: rows [id, checklist_id, folder_id, item_text, url, sort_order]
  completions,   \* table checklist_completions: rows [checklist_id, item_id, completion_date, completed_at]
  appData,       \* table app_data: rows [id, type, user_id, data, updated_at]
  appDataBackups, \* table app_data_backups: rows [id, type, user_id, data, created_at]
  seq,           \* the BIGSERIAL sequences: next id of each table
  now,           \* the server clock (milliseconds, only its order matters)
  today,         \* the server's UTC calendar date
  appDataHasId,  \* whether the deployed app_data table has an id column
  client,        \* a browser session: opsState and where its load stands
  running,       \* the Save requests the server handles statement by statement
  last,          \* the latest request and its response
  prev           \* the request before it (response body dropped)

vars == <<checklists, folders, items, completions, appData, appDataBackups, seq,
          now, today, appDataHasId, client, running, last, prev>>

\* what the server holds and answers
server == <<checklists, folders, items, completions, appData, appDataBackups, seq,
            now, today, appDataHasId, running, last, prev>>

store == <<checklists, folders, items, completions, appData>>

----------------------------------------------------------------------------
(* Bounds of the model *)

\* BIGSERIAL ids of checklists handed out in one behaviour of Spec
MaxSerial == 3
\* calendar days a behaviour spans
MaxDay == 2
\* BIGSERIAL ids of checklists handed out in one behaviour of SpecRing
MaxRingSerial == 7
\* BIGSERIAL ids of checklists handed out in one behaviour of SpecCompletions
MaxCompSerial == 2
\* BIGSERIAL ids of checklists handed out in one behaviour of SpecAuth
MaxAuthSerial == 1
\* BIGSERIAL ids of checklists handed out in one behaviour of SpecFaults
MaxFaultSerial == 3
\* BIGSERIAL ids of checklists handed out in one behaviour of SpecOwn
MaxOwnSerial == 3
\* BIGSERIAL ids of checklists handed out in one behaviour of SpecStore
MaxStoreSerial == 3
\* backups taken in one behaviour of SpecStore
MaxStoreClock == 4
\* BIGSERIAL ids of checklists handed out in one behaviour of SpecClient
MaxClientSerial == 2
\* browser sessions opened in one behaviour of SpecClient
MaxSessions == 2

----------------------------------------------------------------------------
(* Program constants *)

MAX_BACKUPS == 5

Users == {"u1", "u2"}
NoUser == "none"

\* a JavaScript undefined or empty text field
Undefined == "undefined"
General == "General"

----------------------------------------------------------------------------
(* Client documents: the bodies the handlers are called with *)

DocAM ==
  [name |-> "AM Checks", position |-> "Tech",
   folders |-> <<[id |-> 1, name |-> "Vitals", order |-> 0]>>,
   items |-> <<[text |-> "Check BP", folderId |-> 1, order |-> 0, url |-> Undefined]>>]

\* `order` fields that run against the array order
DocRev ==
  [name |-> "PM Checks", position |-> "RN",
   folders |-> <<[id |-> 1, name |-> "Machines", order |-> 1],
                 [id |-> 2, name |-> "Water", order |-> 0]>>,
   items |-> <<[text |-> "Log temp", folderId |-> 2, order |-> 1, url |-> "http://x"],
               [text |-> "Prime", folderId |-> 1, order |-> 0, url |-> Undefined]>>]

\* no label, a folder whose client id is 0, a dangling folderId, equal orders
DocLoose ==
  [name |-> "Misc", position |-> Undefined,
   folders |-> <<[id |-> 0, name |-> "Zero", order |-> 0]>>,
   items |-> <<[text |-> "Mop", folderId |-> 0, order |-> 0, url |-> Undefined],
               [text |-> "Stock", folderId |-> 7, order |-> 0, url |-> Undefined]>>]

\* no name: the insert violates name TEXT NOT NULL
DocBad ==
  [name |-> Undefined, position |-> "Tech", folders |-> <<>>, items |-> <<>>]

Payloads == { <<>>, <<DocAM>>, <<DocRev>>, <<DocAM, DocLoose>>, <<DocAM, DocBad>> }

----------------------------------------------------------------------------
(* Helpers on finite sets of rows *)

Perms(S) ==
  {f \in [1..Cardinality(S) -> S] : \A i, j \in 1..Cardinality(S) : i # j => f[i] # f[j]}

\* rows whose updated_at differ, newest first: .order('updated_at', { ascending: false })
NewestFirst(S) ==
  [k \in 1..Cardinality(S) |->
     CHOOSE r \in S : Cardinality({x \in S : x.updated_at > r.updated_at}) = k - 1]

RowId(r) == r.id

\* rows in the order they were inserted
ById(S) ==
  [k \in 1..Cardinality(S) |->
     CHOOSE r \in S : Cardinality({x \in S : RowId(x) < RowId(r)}) = k - 1]

Range(s) == {s[i] : i \in DOMAIN s}

Ids(S) == {r.id : r \in S}

Put(m, k, v) == [x \in DOMAIN m \cup {k} |-> IF x = k THEN v ELSE m[x]]

EmptyMap == [x \in {} |-> 0]

----------------------------------------------------------------------------
(* Response bodies *)

\* a JSON document: no data, the empty object
NoData == [doc |-> ""]
EmptyObject == [doc |-> "{}"]
\* a JSON value that JavaScript reads as false: 0, false, "" or null
FalsyData == [doc |-> "0"]
\* the request body itself, an object with the keys type and data
BodyAsData == [doc |-> "body"]

\* backupData.checklists is there
HasChecklists(data) == "checklists" \in DOMAIN data

NoBody ==
  [checklists |-> <<>>, completions |-> {}, backups |-> <<>>, data |-> NoData, error |-> ""]

Error(text) == [NoBody EXCEPT !.error = text]

----------------------------------------------------------------------------
(* Authentication *)

\* a request's credentials: the user its bearer token verifies as (NoUser when
\* it carries no token the identity provider accepts) and its user_id parameter
Credentials == [token : Users \cup {NoUser}, user_id : Users \cup {NoUser}]

verifyAuth(req) == req.token

\* the handler's userId: the token's user, else the user_id parameter, else none
ResolveUserId(req) ==
  IF verifyAuth(req) # NoUser THEN verifyAuth(req)
  ELSE IF req.user_id # NoUser THEN req.user_id
  ELSE NoUser

----------------------------------------------------------------------------
(* The store as one value, so that a handler's queries compose *)

Db ==
  [checklists |-> checklists, folders |-> folders, items |-> items,
   completions |-> completions, appData |-> appData, seq |-> seq, now |-> now]

ChecklistsOf(db, u) == {c \in db.checklists : c.user_id = u}
FoldersIn(db, ids) == {f \in db.folders : f.checklist_id \in ids}
ItemsIn(db, ids) == {i \in db.items : i.checklist_id \in ids}
CompletionsIn(db, ids) == {c \in db.completions : c.checklist_id \in ids}

\* .like('type', 'checklist_backup_%')
IsBackupType(type) == type[1] = "checklist_backup"
BackupsOf(db, u) == {r \in db.appData : r.user_id = u /\ IsBackupType(r.type)}

\* the rows after the first MAX_BACKUPS of the user's backups, newest first
BackupsToDelete(all) ==
  {all[k].id : k \in {j \in DOMAIN all : j > MAX_BACKUPS}}

\* the cleanup query selects the column id of app_data: without that column it
\* fails, allBackups is null and nothing is deleted
CleanupBackups(db, u, hasId) ==
  IF ~hasId THEN db
  ELSE LET all == NewestFirst(BackupsOf(db, u))
       IN  IF Len(all) > MAX_BACKUPS
           THEN [db EXCEPT !.appData = {r \in @ : r.id \notin BackupsToDelete(all)}]
           ELSE db

\* a snapshot that records the checklists alone
BackupOfChecklistsOnly(db, u, t) ==
  [checklists |-> ById(ChecklistsOf(db, u)), folders |-> <<>>, items |-> <<>>,
   backupTimestamp |-> t]

\* the snapshot backupCurrentChecklists stores
BackupData(db, u, t) ==
  LET ids == Ids(ChecklistsOf(db, u))
  IN  [checklists |-> ById(ChecklistsOf(db, u)),
       folders |-> ById(FoldersIn(db, ids)),
       items |-> ById(ItemsIn(db, ids)),
       backupTimestamp |-> t]

\* a save that takes no backup, as the handler did before backups were added
backupNothing(db, u, hasId) == db

\* the insert of the snapshot into app_data, and the cleanup after it
InsertBackup(db, u, hasId) ==
  LET t == db.now + 1
      row == [id |-> IF hasId THEN db.seq.app ELSE 0,
              type |-> <<"checklist_backup", t>>,
              user_id |-> u,
              data |-> BackupData(db, u, t),
              updated_at |-> t]
      inserted == [db EXCEPT !.appData = @ \cup {row},
                             !.seq.app = IF hasId THEN @ + 1 ELSE @,
                             !.now = t]
  IN  CleanupBackups(inserted, u, hasId)

\* a backup without the early return on an empty result
backupEvenIfEmpty(db, u, hasId) == InsertBackup(db, u, hasId)

backupCurrentChecklists(db, u, hasId) ==
  IF ChecklistsOf(db, u) = {} THEN db
  ELSE InsertBackup(db, u, hasId)

\* a delete that removes nothing
DeleteNothing(db, u) == db

\* DELETE FROM checklists WHERE user_id = u, with the foreign keys' actions:
\* folders, items and completions cascade, items.folder_id is set to null
DeleteChecklists(db, u) ==
  LET gone == Ids(ChecklistsOf(db, u))
      goneFolders == Ids(FoldersIn(db, gone))
      goneItems == Ids(ItemsIn(db, gone))
  IN  [db EXCEPT
         !.checklists = {c \in @ : c.id \notin gone},
         !.folders = {f \in @ : f.checklist_id \notin gone},
         !.items = {IF i.folder_id \in goneFolders THEN [i EXCEPT !.folder_id = 0] ELSE i :
                      i \in {j \in @ : j.checklist_id \notin gone}},
         !.completions = {c \in @ : c.checklist_id \notin gone /\ c.item_id \notin goneItems}]

----------------------------------------------------------------------------
(* Save: the insert loop over the checklists of the body *)

\* no statement of the request meets a store error
NoFailure == -1

\* a store value with the loop's outcome: ok is FALSE once an insert has thrown,
\* left counts the insert statements that succeed before one meets a store error
Running(db) ==
  [checklists |-> db.checklists, folders |-> db.folders, items |-> db.items,
   completions |-> db.completions, appData |-> db.appData, seq |-> db.seq,
   now |-> db.now, ok |-> TRUE, left |-> NoFailure]

RunningUntil(db, n) == [Running(db) EXCEPT !.left = n]

\* the statement about to run meets the store error
Fails(st) == st.left = 0

\* a statement has succeeded
Counted(st) == [st EXCEPT !.left = IF @ > 0 THEN @ - 1 ELSE @]

\* the store error has happened, and the handler went on
Happened(st) == [st EXCEPT !.left = NoFailure]

Stopped(st) ==
  [checklists |-> st.checklists, folders |-> st.folders, items |-> st.items,
   completions |-> st.completions, appData |-> st.appData, seq |-> st.seq,
   now |-> st.now]

\* a label that is dropped
RoleAlwaysGeneral(label) == General

\* role: checklist.position || 'General'
RoleOf(label) == IF label = Undefined THEN General ELSE label

\* a mapping that keeps the client's folder id
MapFolderIdKept(folderId, folderIdMap) == folderId

\* a mapping that falls back to the client's folder id: folderIdMap[id] || id
MapFolderIdOrClientId(folderId, folderIdMap) ==
  IF folderId # 0 /\ folderId \in DOMAIN folderIdMap THEN folderIdMap[folderId]
  ELSE folderId

\* folder_id: item.folderId ? folderIdMap[item.folderId] || null : null
MapFolderId(folderId, folderIdMap) ==
  IF folderId # 0 /\ folderId \in DOMAIN folderIdMap THEN folderIdMap[folderId] ELSE 0

\* folder inserts that key folderIdMap by the folder's place in the array
RECURSIVE InsertFoldersKeyedByIndex(_, _, _, _, _)
InsertFoldersKeyedByIndex(st, checklistId, fs, k, folderIdMap) ==
  IF k > Len(fs) THEN [st |-> st, folderIdMap |-> folderIdMap]
  ELSE IF fs[k].name = Undefined \/ Fails(st)
       THEN [st |-> [st EXCEPT !.ok = FALSE, !.seq.folder = @ + 1], folderIdMap |-> folderIdMap]
       ELSE LET row == [id |-> st.seq.folder, checklist_id |-> checklistId,
                        name |-> fs[k].name, sort_order |-> fs[k].order]
            IN  InsertFoldersKeyedByIndex(Counted([st EXCEPT !.folders = @ \cup {row},
                                                             !.seq.folder = @ + 1]),
                                          checklistId, fs, k + 1, Put(folderIdMap, k, row.id))

\* the folders of one checklist, one insert each; the result carries folderIdMap
RECURSIVE InsertFolders(_, _, _, _, _)
InsertFolders(st, checklistId, fs, k, folderIdMap) ==
  IF k > Len(fs) THEN [st |-> st, folderIdMap |-> folderIdMap]
  ELSE IF fs[k].name = Undefined \/ Fails(st)
       THEN [st |-> [st EXCEPT !.ok = FALSE, !.seq.folder = @ + 1], folderIdMap |-> folderIdMap]
       ELSE LET row == [id |-> st.seq.folder, checklist_id |-> checklistId,
                        name |-> fs[k].name, sort_order |-> fs[k].order]
            IN  InsertFolders(Counted([st EXCEPT !.folders = @ \cup {row},
                                                 !.seq.folder = @ + 1]),
                              checklistId, fs, k + 1, Put(folderIdMap, fs[k].id, row.id))

\* a batch insert that rejects an item whose folderId names no folder of the checklist
InsertItemsChecked(st, checklistId, is, folderIdMap) ==
  IF Len(is) = 0 THEN st
  ELSE IF \/ Fails(st)
          \/ \E k \in DOMAIN is :
               \/ is[k].text = Undefined
               \/ is[k].folderId # 0 /\ is[k].folderId \notin DOMAIN folderIdMap
       THEN [st EXCEPT !.ok = FALSE, !.seq.item = @ + Len(is)]
       ELSE Counted([st EXCEPT
               !.items = @ \cup
                 {[id |-> st.seq.item + k - 1, checklist_id |-> checklistId,
                   folder_id |-> MapFolderId(is[k].folderId, folderIdMap),
                   item_text |-> is[k].text, url |-> is[k].url,
                   sort_order |-> is[k].order] : k \in DOMAIN is},
               !.seq.item = @ + Len(is)])

\* the items of one checklist, one batch insert: a row without text fails it all
InsertItems(st, checklistId, is, folderIdMap) ==
  IF Len(is) = 0 THEN st
  ELSE IF Fails(st) \/ \E k \in DOMAIN is : is[k].text = Undefined
       THEN [st EXCEPT !.ok = FALSE, !.seq.item = @ + Len(is)]
       ELSE Counted([st EXCEPT
               !.items = @ \cup
                 {[id |-> st.seq.item + k - 1, checklist_id |-> checklistId,
                   folder_id |-> MapFolderId(is[k].folderId, folderIdMap),
                   item_text |-> is[k].text, url |-> is[k].url,
                   sort_order |-> is[k].order] : k \in DOMAIN is},
               !.seq.item = @ + Len(is)])

\* an insert that stores the 1-based count as position
InsertChecklistRowOneBased(st, u, C, i) ==
  IF C[i].name = Undefined \/ Fails(st)
  THEN [st EXCEPT !.ok = FALSE, !.seq.checklist = @ + 1]
  ELSE LET row == [id |-> st.seq.checklist, user_id |-> u, name |-> C[i].name,
                   position |-> i, role |-> RoleOf(C[i].position)]
       IN  Counted([st EXCEPT !.checklists = @ \cup {row}, !.seq.checklist = @ + 1])

\* the insert of the row of checklist C[i]: a row without name fails
InsertChecklistRow(st, u, C, i) ==
  IF C[i].name = Undefined \/ Fails(st)
  THEN [st EXCEPT !.ok = FALSE, !.seq.checklist = @ + 1]
  ELSE LET row == [id |-> st.seq.checklist, user_id |-> u, name |-> C[i].name,
                   position |-> i - 1, role |-> RoleOf(C[i].position)]
       IN  Counted([st EXCEPT !.checklists = @ \cup {row}, !.seq.checklist = @ + 1])

RECURSIVE InsertChecklists(_, _, _, _)
InsertChecklists(st, u, C, i) ==
  IF i > Len(C) \/ ~st.ok THEN st
  ELSE LET withRow == InsertChecklistRow(st, u, C, i)
       IN  IF ~withRow.ok THEN withRow
           ELSE LET fo == InsertFolders(withRow, st.seq.checklist, C[i].folders, 1, EmptyMap)
                IN  IF ~fo.st.ok THEN fo.st
                    ELSE InsertChecklists(InsertItems(fo.st, st.seq.checklist, C[i].items,
                                                      fo.folderIdMap),
                                          u, C, i + 1)

----------------------------------------------------------------------------
(* Save: the completions of the body *)

\* a key "{date}_{checklistId}" of the completions object, and key.split('_')
Key(date, checklistId) == <<date, "_", checklistId>>
KeyDate(key) == key[1]
KeyChecklistId(key) == key[3]

\* the rows of Object.entries(completions), in order
RECURSIVE CompletionRows(_, _, _)
CompletionRows(comp, k, t) ==
  IF k > Len(comp) THEN <<>>
  ELSE [j \in DOMAIN comp[k].completedItems |->
          [checklist_id |-> KeyChecklistId(comp[k].key),
           item_id |-> comp[k].completedItems[j],
           completion_date |-> KeyDate(comp[k].key),
           completed_at |-> t]]
       \o CompletionRows(comp, k + 1, t)

Triple(c) == <<c.checklist_id, c.item_id, c.completion_date>>

\* the batch insert passes the foreign keys and UNIQUE(checklist_id, item_id, completion_date)
BatchAccepted(db, rows) ==
  /\ \A k \in DOMAIN rows :
       /\ rows[k].checklist_id \in Ids(db.checklists)
       /\ rows[k].item_id \in Ids(db.items)
       /\ \A c \in db.completions : Triple(c) # Triple(rows[k])
  /\ \A j, k \in DOMAIN rows : j # k => Triple(rows[j]) # Triple(rows[k])

\* .delete().eq('completion_date', today)
DeleteTodaysCompletions(db, u, day) ==
  [db EXCEPT !.completions = {c \in @ : c.completion_date # day}]

\* a completions step that undoes the structural save when its insert fails
SaveCompletionsOrUndo(db, u, comp, day) ==
  LET cleared == DeleteTodaysCompletions(db, u, day)
      rows == CompletionRows(comp, 1, db.now)
  IN  IF Len(rows) = 0 THEN cleared
      ELSE IF BatchAccepted(cleared, rows)
           THEN [cleared EXCEPT !.completions = @ \cup Range(rows)]
           ELSE DeleteChecklists(cleared, u)

\* delete today's completions, then insert the body's; an insert error is logged
SaveCompletions(db, u, comp, day) ==
  LET cleared == DeleteTodaysCompletions(db, u, day)
      rows == CompletionRows(comp, 1, db.now)
  IN  IF Len(rows) > 0 /\ BatchAccepted(cleared, rows)
      THEN [cleared EXCEPT !.completions = @ \cup Range(rows)]
      ELSE cleared

----------------------------------------------------------------------------
(* Load: the nested structure the GET branch answers with *)

\* the answers .order('position', { ascending: true }) can give: rows with
\* equal keys come in any order
OrderedByPosition(S) ==
  {f \in Perms(S) : \A i, j \in 1..Cardinality(S) : i < j => f[i].position <= f[j].position}

\* the answers .order('sort_order', { ascending: true }) can give
\* a query without its order clause
InAnyOrder(S) == Perms(S)

OrderedBySortOrder(S) ==
  {f \in Perms(S) : \A i, j \in 1..Cardinality(S) : i < j => f[i].sort_order <= f[j].sort_order}

LoadFolder(f) == [id |-> f.id, name |-> f.name, order |-> f.sort_order]

LoadItem(i) ==
  [id |-> i.id, text |-> i.item_text, order |-> i.sort_order,
   folderId |-> i.folder_id, url |-> i.url]

LoadChecklist(c, fs, is) ==
  [id |-> c.id, name |-> c.name, position |-> RoleOf(c.role),
   folders |-> [k \in DOMAIN fs |-> LoadFolder(fs[k])],
   items |-> [k \in DOMAIN is |-> LoadItem(is[k])]]

\* the checklists of cs[1..k], each with its folders and items by sort_order
RECURSIVE LoadChecklists(_, _, _)
LoadChecklists(db, cs, k) ==
  IF k = 0 THEN {<<>>}
  ELSE {Append(head, LoadChecklist(cs[k], fs, is)) :
          head \in LoadChecklists(db, cs, k - 1),
          fs \in OrderedBySortOrder(FoldersIn(db, {cs[k].id})),
          is \in OrderedBySortOrder(ItemsIn(db, {cs[k].id}))}

\* completionsByChecklist: today's rows grouped under "{date}_{checklistId}"
LoadCompletions(db, u, day) ==
  LET rows == {c \in CompletionsIn(db, Ids(ChecklistsOf(db, u))) : c.completion_date = day}
  IN  {[key |-> Key(day, id),
        completedItems |-> {c.item_id : c \in {r \in rows : r.checklist_id = id}}] :
         id \in {c.checklist_id : c \in rows}}

\* every body the GET branch can answer with in this store state
LoadBodies(db, u, day) ==
  {[checklists |-> docs, completions |-> LoadCompletions(db, u, day)] :
     docs \in UNION {LoadChecklists(db, cs, Len(cs)) :
                       cs \in OrderedByPosition(ChecklistsOf(db, u))}}

----------------------------------------------------------------------------
(* list_backups and restore_backup *)

BackupSummary(b) ==
  [id |-> b.id, type |-> b.type, timestamp |-> b.data.backupTimestamp,
   checklistCount |-> Len(b.data.checklists), itemCount |-> Len(b.data.items)]

\* a listing that forgets .eq('user_id', userId)
BackupListOfAnyone(db, u) ==
  LET all == NewestFirst({r \in db.appData : IsBackupType(r.type)})
      n == IF Len(all) > MAX_BACKUPS THEN MAX_BACKUPS ELSE Len(all)
  IN  [k \in 1..n |-> BackupSummary(all[k])]

\* the MAX_BACKUPS newest backups of the user, newest first
BackupList(db, u) ==
  LET all == NewestFirst(BackupsOf(db, u))
      n == IF Len(all) > MAX_BACKUPS THEN MAX_BACKUPS ELSE Len(all)
  IN  [k \in 1..n |-> BackupSummary(all[k])]

\* a fetch that forgets .eq('user_id', userId)
FetchBackupOfAnyone(db, u, backupId, hasId) ==
  IF hasId THEN {r \in db.appData : r.id = backupId} ELSE {}

\* .eq('id', backupId).eq('user_id', userId).single()
FetchBackup(db, u, backupId, hasId) ==
  IF hasId THEN {r \in db.appData : r.id = backupId /\ r.user_id = u} ELSE {}

\* an answer that tells a backup of somebody else from no backup
RestoreForbidden(db, backupId) ==
  IF \E r \in db.appData : r.id = backupId /\ backupId # 0
  THEN [status |-> 403, body |-> Error("Backup belongs to another user")]
  ELSE [status |-> 404, body |-> Error("Backup not found")]

\* if (backupError || !backup) return res.status(404)
RestoreNotFound(db, backupId) ==
  [status |-> 404, body |-> Error("Backup not found")]

RECURSIVE RestoreFolders(_, _, _, _, _)
RestoreFolders(st, checklistId, fs, k, folderIdMap) ==
  IF k > Len(fs) THEN [st |-> st, folderIdMap |-> folderIdMap]
  ELSE IF Fails(st)
       \* if (!fError && newFolder): the error is dropped, the folder gets no new id
       THEN RestoreFolders(Happened([st EXCEPT !.seq.folder = @ + 1]),
                           checklistId, fs, k + 1, folderIdMap)
  ELSE LET row == [id |-> st.seq.folder, checklist_id |-> checklistId,
                   name |-> fs[k].name, sort_order |-> fs[k].sort_order]
       IN  RestoreFolders(Counted([st EXCEPT !.folders = @ \cup {row},
                                             !.seq.folder = @ + 1]),
                          checklistId, fs, k + 1, Put(folderIdMap, fs[k].id, row.id))

\* a replay that keeps the folder ids recorded in the backup
RestoreItemsUnmapped(st, checklistId, is, folderIdMap) ==
  IF Len(is) = 0 THEN st
  ELSE IF Fails(st) THEN Happened([st EXCEPT !.seq.item = @ + Len(is)])
  ELSE Counted([st EXCEPT
     !.items = @ \cup
       {[id |-> st.seq.item + k - 1, checklist_id |-> checklistId,
         folder_id |-> is[k].folder_id,
         item_text |-> is[k].item_text, url |-> is[k].url,
         sort_order |-> is[k].sort_order] : k \in DOMAIN is},
     !.seq.item = @ + Len(is)])

\* the items of one checklist, one batch insert whose error is not looked at
RestoreItems(st, checklistId, is, folderIdMap) ==
  IF Len(is) = 0 THEN st
  ELSE IF Fails(st) THEN Happened([st EXCEPT !.seq.item = @ + Len(is)])
  ELSE Counted([st EXCEPT
     !.items = @ \cup
       {[id |-> st.seq.item + k - 1, checklist_id |-> checklistId,
         folder_id |-> MapFolderId(is[k].folder_id, folderIdMap),
         item_text |-> is[k].item_text, url |-> is[k].url,
         sort_order |-> is[k].sort_order] : k \in DOMAIN is},
     !.seq.item = @ + Len(is)])

RECURSIVE RestoreChecklists(_, _, _, _)
RestoreChecklists(st, u, data, i) ==
  IF i > Len(data.checklists) \/ ~st.ok THEN st
  \* if (clError) throw clError
  ELSE IF Fails(st) THEN [st EXCEPT !.ok = FALSE, !.seq.checklist = @ + 1]
  ELSE LET old == data.checklists[i]
           row == [id |-> st.seq.checklist, user_id |-> u, name |-> old.name,
                   position |-> old.position, role |-> RoleOf(old.role)]
           withRow == Counted([st EXCEPT !.checklists = @ \cup {row},
                                         !.seq.checklist = @ + 1])
           fo == RestoreFolders(withRow, row.id,
                                SelectSeq(data.folders, LAMBDA f : f.checklist_id = old.id),
                                1, EmptyMap)
       IN  RestoreChecklists(
             RestoreItems(fo.st, row.id,
                          SelectSeq(data.items, LAMBDA it : it.checklist_id = old.id),
                          fo.folderIdMap),
             u, data, i + 1)

----------------------------------------------------------------------------
(* The store after the structural steps of a save and of a restore *)

\* delete, then the insert loop, on the store the backup step left; ok tells
\* whether the loop ran through
SavedAfter(backed, u, C) ==
  InsertChecklists(Running(DeleteChecklists(backed, u)), u, C, 1)

Saved(db, u, C, hasId) == SavedAfter(backupCurrentChecklists(db, u, hasId), u, C)

\* delete, then the replay of the backup that was fetched, on the store the
\* backup step left
RestoredAfter(backed, u, backup) ==
  IF HasChecklists(backup.data)
  THEN Stopped(RestoreChecklists(Running(DeleteChecklists(backed, u)), u, backup.data, 1))
  ELSE DeleteChecklists(backed, u)

Restored(db, u, backup, hasId) ==
  RestoredAfter(backupCurrentChecklists(db, u, hasId), u, backup)

----------------------------------------------------------------------------
(* Requests and responses *)

\* no store operation fails while the request is handled
NoFault == "none"

NoCredentials == [token |-> NoUser, user_id |-> NoUser]

NoRequest ==
  [method |-> "none", action |-> "none", cred |-> NoCredentials, hasArray |-> FALSE,
   C |-> <<>>, hasComp |-> FALSE, comp |-> <<>>, backupId |-> 0,
   type |-> Undefined, data |-> NoData, fault |-> NoFault, failAt |-> NoFailure]

\* a request; action is "save" for a POST body that names none
Request(method, action, cred) ==
  [NoRequest EXCEPT !.method = method, !.action = action, !.cred = cred]

NoPrev ==
  [action |-> "none", userId |-> NoUser, C |-> <<>>, hasComp |-> FALSE,
   comp |-> <<>>, ownIds |-> FALSE, day |-> 0, backupId |-> 0]

\* what prev keeps of a request: the writes that were answered 200
Remember(l) ==
  IF l.status = 200 /\ l.req.action \in {"save", "restore_backup"}
  THEN [action |-> l.req.action, userId |-> l.userId, C |-> l.req.C,
        hasComp |-> l.req.hasComp, comp |-> l.req.comp, ownIds |-> l.ownIds,
        day |-> l.day, backupId |-> l.req.backupId]
  ELSE NoPrev

\* every key of the completions names a checklist the user owns in db and every
\* completed item id an item of that checklist
NamesOwnRows(db, u, comp) ==
  \A k \in DOMAIN comp :
    /\ KeyChecklistId(comp[k].key) \in Ids(ChecklistsOf(db, u))
    /\ \A j \in DOMAIN comp[k].completedItems :
         comp[k].completedItems[j] \in Ids(ItemsIn(db, {KeyChecklistId(comp[k].key)}))

\* the handler answers: touched tells whether it queried the store, ownIds
\* whether the completions it was sent named rows the user owned at that time
Answer(req, userId, status, touched, body) ==
  /\ last' = [req |-> req, userId |-> userId, status |-> status, touched |-> touched,
              ownIds |-> req.hasComp /\ req.comp # <<>> /\ NamesOwnRows(Db, userId, req.comp),
              day |-> today, resp |-> body]
  /\ prev' = Remember(last)

Commit(db) ==
  /\ checklists' = db.checklists
  /\ folders' = db.folders
  /\ items' = db.items
  /\ completions' = db.completions
  /\ appData' = db.appData
  /\ seq' = db.seq
  /\ now' = db.now
  \* no query of the handlers names app_data_backups
  /\ UNCHANGED appDataBackups

Unauthorized(req) ==
  /\ Answer(req, NoUser, 401, FALSE, Error("Authentication required"))
  /\ Commit(Db)

----------------------------------------------------------------------------
(* The handler of the checklist endpoint, one action per branch *)

\* GET
Load(cred) ==
  LET req == Request("GET", "load", cred)
      userId == ResolveUserId(cred)
  IN  /\ UNCHANGED <<today, appDataHasId>>
      /\ IF userId = NoUser THEN Unauthorized(req)
         ELSE /\ \E body \in LoadBodies(Db, userId, today) :
                   Answer(req, userId, 200, TRUE,
                          [NoBody EXCEPT !.checklists = body.checklists,
                                         !.completions = body.completions])
              /\ Commit(Db)

\* POST {action: 'list_backups'}
ListBackups(cred) ==
  LET req == Request("POST", "list_backups", cred)
      userId == ResolveUserId(cred)
  IN  /\ UNCHANGED <<today, appDataHasId>>
      /\ Commit(Db)
      /\ IF userId = NoUser THEN Unauthorized(req)
         ELSE IF ~appDataHasId
              THEN Answer(req, userId, 500, TRUE, Error("Failed to process checklists"))
              ELSE Answer(req, userId, 200, TRUE,
                          [NoBody EXCEPT !.backups = BackupList(Db, userId)])

\* POST {action: 'restore_backup', backupId}
RestoreBackup(cred, backupId) ==
  LET req == [Request("POST", "restore_backup", cred) EXCEPT !.backupId = backupId]
      userId == ResolveUserId(cred)
      found == FetchBackup(Db, userId, backupId, appDataHasId)
  IN  /\ UNCHANGED <<today, appDataHasId>>
      /\ IF userId = NoUser THEN Unauthorized(req)
         ELSE IF backupId = 0
              THEN /\ Answer(req, userId, 400, FALSE, Error("backupId required for restore"))
                   /\ Commit(Db)
         ELSE IF Cardinality(found) # 1
              THEN /\ Answer(req, userId, RestoreNotFound(Db, backupId).status, TRUE,
                             RestoreNotFound(Db, backupId).body)
                   /\ Commit(Db)
         ELSE /\ Answer(req, userId, 200, TRUE, NoBody)
              /\ Commit(Restored(Db, userId, CHOOSE r \in found : TRUE, appDataHasId))

\* a validation that lets every body through
ChecklistsNeverInvalid(hasArray) == FALSE

\* !checklists || !Array.isArray(checklists)
ChecklistsInvalid(hasArray) == ~hasArray

\* POST {checklists, completions}
Save(cred, hasArray, C, hasComp, comp) ==
  LET req == [Request("POST", "save", cred) EXCEPT
                !.hasArray = hasArray, !.C = C, !.hasComp = hasComp, !.comp = comp]
      userId == ResolveUserId(cred)
  IN  /\ UNCHANGED <<today, appDataHasId>>
      /\ IF userId = NoUser THEN Unauthorized(req)
         ELSE IF ChecklistsInvalid(hasArray)
              THEN /\ Answer(req, userId, 400, FALSE,
                             Error("Invalid data: checklists array required"))
                   /\ Commit(Db)
         ELSE LET st == Saved(Db, userId, C, appDataHasId)
              IN  IF ~st.ok
                  THEN /\ Answer(req, userId, 500, TRUE, Error("Failed to process checklists"))
                       /\ Commit(Stopped(st))
                  ELSE /\ Answer(req, userId, 200, TRUE, NoBody)
                       /\ Commit(IF hasComp
                                 THEN SaveCompletions(Stopped(st), userId, comp, today)
                                 ELSE Stopped(st))

----------------------------------------------------------------------------
(* Save and restore_backup when a store operation of the backup step fails *)

\* the store operations of backupCurrentChecklists, one of which fails
BackupFaults ==
  {"fetch_checklists", "fetch_folders", "fetch_items", "insert",
   "cleanup_select", "cleanup_delete"}

\* the backup step with one failing operation: a failed fetch of the checklists
\* returns at once, a failed fetch of folders or items leaves that array empty
\* (foldersData || []), a failed insert adds no row, a failed cleanup deletes none
backupWithFault(db, u, hasId, fault) ==
  IF ChecklistsOf(db, u) = {} \/ fault = "fetch_checklists" THEN db
  ELSE LET t == db.now + 1
           full == BackupData(db, u, t)
           data == IF fault = "fetch_folders" THEN [full EXCEPT !.folders = <<>>]
                   ELSE IF fault = "fetch_items" THEN [full EXCEPT !.items = <<>>]
                   ELSE full
           row == [id |-> IF hasId THEN db.seq.app ELSE 0,
                   type |-> <<"checklist_backup", t>>,
                   user_id |-> u, data |-> data, updated_at |-> t]
           inserted == IF fault = "insert" THEN [db EXCEPT !.now = t]
                       ELSE [db EXCEPT !.appData = @ \cup {row},
                                       !.seq.app = IF hasId THEN @ + 1 ELSE @,
                                       !.now = t]
       IN  IF fault \in {"cleanup_select", "cleanup_delete"} THEN inserted
           ELSE CleanupBackups(inserted, u, hasId)

\* a backup step whose failure reaches the handler
BackupOutcomeUncaught(db, u, hasId, fault) ==
  [db |-> backupWithFault(db, u, hasId, fault), threw |-> TRUE]

\* what the handler sees of the backup step: try { ... } catch (err) { log }
BackupOutcome(db, u, hasId, fault) ==
  [db |-> backupWithFault(db, u, hasId, fault), threw |-> FALSE]

\* POST {checklists} while an operation of the backup step fails
SaveWithBackupFault(cred, C, fault) ==
  LET req == [Request("POST", "save", cred) EXCEPT
                !.hasArray = TRUE, !.C = C, !.fault = fault]
      userId == ResolveUserId(cred)
      backed == BackupOutcome(Db, userId, appDataHasId, fault)
      st == SavedAfter(backed.db, userId, C)
  IN  /\ UNCHANGED <<today, appDataHasId>>
      /\ IF userId = NoUser THEN Unauthorized(req)
         ELSE IF backed.threw
              THEN /\ Answer(req, userId, 500, TRUE, Error("Failed to process checklists"))
                   /\ Commit(backed.db)
         ELSE IF ~st.ok
              THEN /\ Answer(req, userId, 500, TRUE, Error("Failed to process checklists"))
                   /\ Commit(Stopped(st))
              ELSE /\ Answer(req, userId, 200, TRUE, NoBody)
                   /\ Commit(Stopped(st))

\* POST {action: 'restore_backup', backupId} while an operation of the backup step fails
RestoreWithBackupFault(cred, backupId, fault) ==
  LET req == [Request("POST", "restore_backup", cred) EXCEPT
                !.backupId = backupId, !.fault = fault]
      userId == ResolveUserId(cred)
      found == FetchBackup(Db, userId, backupId, appDataHasId)
      backed == BackupOutcome(Db, userId, appDataHasId, fault)
  IN  /\ UNCHANGED <<today, appDataHasId>>
      /\ IF userId = NoUser THEN Unauthorized(req)
         ELSE IF backupId = 0
              THEN /\ Answer(req, userId, 400, FALSE, Error("backupId required for restore"))
                   /\ Commit(Db)
         ELSE IF Cardinality(found) # 1
              THEN /\ Answer(req, userId, RestoreNotFound(Db, backupId).status, TRUE,
                             RestoreNotFound(Db, backupId).body)
                   /\ Commit(Db)
         ELSE IF backed.threw
              THEN /\ Answer(req, userId, 500, TRUE, Error("Failed to process checklists"))
                   /\ Commit(backed.db)
         ELSE /\ Answer(req, userId, 200, TRUE, NoBody)
              /\ Commit(RestoredAfter(backed.db, userId, CHOOSE r \in found : TRUE))

----------------------------------------------------------------------------
(* Save and restore_backup when a statement after the backup step meets a store
   error: failAt 0 is the delete, failAt n the n-th insert statement *)

\* a save whose statements run in one transaction: an error undoes the delete
\* and the inserts
SavedOrRolledBack(db, u, C, hasId, failAt) ==
  LET backed == backupCurrentChecklists(db, u, hasId)
      st == InsertChecklists(RunningUntil(DeleteChecklists(backed, u), failAt - 1), u, C, 1)
  IN  IF failAt # 0 /\ st.ok THEN st
      ELSE [Running(backed) EXCEPT !.ok = FALSE, !.seq = st.seq]

\* the store after the structural steps of a save, ok FALSE when one has thrown
SavedWithFault(db, u, C, hasId, failAt) ==
  LET backed == backupCurrentChecklists(db, u, hasId)
  IN  IF failAt = 0
      \* if (deleteError) throw deleteError
      THEN [Running(backed) EXCEPT !.ok = FALSE]
      ELSE InsertChecklists(RunningUntil(DeleteChecklists(backed, u), failAt - 1), u, C, 1)

\* POST {checklists, completions} while a statement meets a store error
SaveWithStoreFault(cred, C, hasComp, comp, failAt) ==
  LET req == [Request("POST", "save", cred) EXCEPT
                !.hasArray = TRUE, !.C = C, !.hasComp = hasComp, !.comp = comp,
                !.fault = "statement", !.failAt = failAt]
      userId == ResolveUserId(cred)
  IN  /\ UNCHANGED <<today, appDataHasId>>
      /\ IF userId = NoUser THEN Unauthorized(req)
         ELSE LET st == SavedWithFault(Db, userId, C, appDataHasId, failAt)
              IN  IF ~st.ok
                  THEN /\ Answer(req, userId, 500, TRUE, Error("Failed to process checklists"))
                       /\ Commit(Stopped(st))
                  ELSE /\ Answer(req, userId, 200, TRUE, NoBody)
                       /\ Commit(IF hasComp
                                 THEN SaveCompletions(Stopped(st), userId, comp, today)
                                 ELSE Stopped(st))

\* the store after the structural steps of a restore: the result of the delete
\* is not looked at, ok is FALSE when the insert of a checklist has thrown
RestoredWithFault(db, u, backup, hasId, failAt) ==
  LET backed == backupCurrentChecklists(db, u, hasId)
      st == IF failAt = 0 THEN Running(backed)
            ELSE RunningUntil(DeleteChecklists(backed, u), failAt - 1)
  IN  IF HasChecklists(backup.data) THEN RestoreChecklists(st, u, backup.data, 1) ELSE st

\* POST {action: 'restore_backup', backupId} while a statement meets a store error
RestoreWithStoreFault(cred, backupId, failAt) ==
  LET req == [Request("POST", "restore_backup", cred) EXCEPT
                !.backupId = backupId, !.fault = "statement", !.failAt = failAt]
      userId == ResolveUserId(cred)
      found == FetchBackup(Db, userId, backupId, appDataHasId)
  IN  /\ UNCHANGED <<today, appDataHasId>>
      /\ IF userId = NoUser THEN Unauthorized(req)
         ELSE IF backupId = 0
              THEN /\ Answer(req, userId, 400, FALSE, Error("backupId required for restore"))
                   /\ Commit(Db)
         ELSE IF Cardinality(found) # 1
              THEN /\ Answer(req, userId, RestoreNotFound(Db, backupId).status, TRUE,
                             RestoreNotFound(Db, backupId).body)
                   /\ Commit(Db)
         ELSE LET st == RestoredWithFault(Db, userId, CHOOSE r \in found : TRUE,
                                          appDataHasId, failAt)
              IN  IF ~st.ok
                  THEN /\ Answer(req, userId, 500, TRUE, Error("Failed to process checklists"))
                       /\ Commit(Stopped(st))
                  ELSE /\ Answer(req, userId, 200, TRUE, NoBody)
                       /\ Commit(Stopped(st))

----------------------------------------------------------------------------
(* The handlers of the document endpoints, load.js and save.js *)

ValidTypes ==
  {"flowsheet", "operations", "snippets", "labs", "timestamp_logs", "wheelchair_profiles"}

\* const type = req.query.type || 'flowsheet'
TypeOrDefault(type) == IF type = Undefined THEN "flowsheet" ELSE type

\* const dataToSave = body.data || body
DataToSave(data) == IF data \in {NoData, FalsyData} THEN BodyAsData ELSE data

DocumentsOf(db, u, type) == {r \in db.appData : r.type = <<type, 0>> /\ r.user_id = u}

\* .upsert(record, { onConflict: 'type,user_id' })
Upsert(db, u, type, data, hasId) ==
  IF DocumentsOf(db, u, type) # {}
  THEN [db EXCEPT !.appData =
          {IF r \in DocumentsOf(db, u, type)
           THEN [r EXCEPT !.data = data, !.updated_at = db.now] ELSE r : r \in @}]
  ELSE [db EXCEPT !.appData = @ \cup {[id |-> IF hasId THEN db.seq.app ELSE 0,
                                       type |-> <<type, 0>>, user_id |-> u,
                                       data |-> data, updated_at |-> db.now]},
                  !.seq.app = IF hasId THEN @ + 1 ELSE @]

\* the earlier load: 404 when .single() finds no row
NoDocumentIsNotFound(type) ==
  [status |-> 404, body |-> Error("No saved data found")]

\* error.code === 'PGRST116': no row is not an error
NoDocumentFound(type) ==
  [status |-> 200, body |-> [NoBody EXCEPT !.data = EmptyObject]]

\* GET load
LoadDocument(cred, type) ==
  LET req == [Request("GET", "load_document", cred) EXCEPT !.type = type]
      userId == ResolveUserId(cred)
      rows == DocumentsOf(Db, userId, TypeOrDefault(type))
  IN  /\ UNCHANGED <<today, appDataHasId>>
      /\ Commit(Db)
      /\ IF userId = NoUser THEN Unauthorized(req)
         ELSE IF TypeOrDefault(type) \notin ValidTypes
              THEN Answer(req, userId, 400, FALSE, Error("Invalid type"))
         ELSE IF rows = {}
              THEN Answer(req, userId, NoDocumentFound(type).status, TRUE,
                          NoDocumentFound(type).body)
              ELSE Answer(req, userId, 200, TRUE,
                          [NoBody EXCEPT !.data = (CHOOSE r \in rows : TRUE).data])

\* GET load when the select on app_data fails with an error other than PGRST116
LoadDocumentWithFault(cred, type) ==
  LET req == [Request("GET", "load_document", cred) EXCEPT !.type = type,
                                                           !.fault = "select"]
      userId == ResolveUserId(cred)
  IN  /\ UNCHANGED <<today, appDataHasId>>
      /\ Commit(Db)
      /\ IF userId = NoUser THEN Unauthorized(req)
         ELSE IF TypeOrDefault(type) \notin ValidTypes
              THEN Answer(req, userId, 400, FALSE, Error("Invalid type"))
              ELSE Answer(req, userId, 500, TRUE, Error("Failed to load data"))

\* POST save
SaveDocument(cred, type, data) ==
  LET req == [Request("POST", "save_document", cred) EXCEPT !.type = type, !.data = data]
      userId == ResolveUserId(cred)
  IN  /\ UNCHANGED <<today, appDataHasId>>
      /\ IF userId = NoUser THEN Unauthorized(req)
         ELSE IF TypeOrDefault(type) \notin ValidTypes
              THEN /\ Answer(req, userId, 400, FALSE, Error("Invalid type"))
                   /\ Commit(Db)
              ELSE /\ Answer(req, userId, 200, TRUE, NoBody)
                   /\ Commit(Upsert(Db, userId, TypeOrDefault(type), DataToSave(data),
                                    appDataHasId))

\* the server's date changes
Midnight ==
  /\ today < MaxDay
  /\ today' = today + 1
  /\ UNCHANGED <<checklists, folders, items, completions, appData, appDataBackups,
                 seq, now, appDataHasId, client, running, last, prev>>

----------------------------------------------------------------------------
(* Save handled statement by statement: every await of the handler is a step,
   and the steps of two requests interleave *)

\* the requests in progress at one time
Slots == {1, 2}

\* a request slot: where the handler stands (pc), the body's checklists, the
\* loop indices i and k, newChecklistId and folderIdMap, the status answered,
\* the next checklist id when the request arrived and what a Load answered then
NoRun ==
  [pc |-> "idle", C |-> <<>>, i |-> 0, k |-> 0, checklistId |-> 0,
   folderIdMap |-> EmptyMap, status |-> 0, start |-> 0, before |-> {}]

\* a lock per user: a request waits while another one is being handled
RunsAlone(run, r) == \A o \in Slots \ {r} : run[o].pc \in {"idle", "backup", "done"}

\* the handler takes no lock and opens no transaction
MayRun(run, r) == TRUE

\* the handler has authenticated the request and validated checklists
RaceStart(r, u, C) ==
  /\ running[r].pc = "idle"
  /\ running' = [running EXCEPT ![r] =
                   [NoRun EXCEPT !.pc = "backup", !.C = C, !.start = seq.checklist,
                                 !.before = {b.checklists : b \in LoadBodies(Db, u, today)}]]
  /\ UNCHANGED <<checklists, folders, items, completions, appData, appDataBackups, seq,
                 now, today, appDataHasId, client, last, prev>>

\* await backupCurrentChecklists(userId)
RaceBackup(r, u) ==
  /\ running[r].pc = "backup"
  /\ MayRun(running, r)
  /\ Commit(backupCurrentChecklists(Db, u, appDataHasId))
  /\ running' = [running EXCEPT ![r].pc = "delete"]
  /\ UNCHANGED <<today, appDataHasId, client, last, prev>>

\* await supabase.from('checklists').delete().eq('user_id', userId)
RaceDelete(r, u) ==
  /\ running[r].pc = "delete"
  /\ MayRun(running, r)
  /\ Commit(DeleteChecklists(Db, u))
  /\ running' = [running EXCEPT ![r].pc = IF Len(running[r].C) = 0 THEN "respond"
                                          ELSE "checklist",
                                ![r].i = 1,
                                ![r].status = IF Len(running[r].C) = 0 THEN 200 ELSE 0]
  /\ UNCHANGED <<today, appDataHasId, client, last, prev>>

\* where the loop goes after the folders of checklist i, or after its items
AfterFolders(run) ==
  IF Len(run.C[run.i].items) > 0 THEN [run EXCEPT !.pc = "items"]
  ELSE IF run.i < Len(run.C) THEN [run EXCEPT !.pc = "checklist", !.i = @ + 1]
  ELSE [run EXCEPT !.pc = "respond", !.status = 200]

AfterItems(run) ==
  IF run.i < Len(run.C) THEN [run EXCEPT !.pc = "checklist", !.i = @ + 1]
  ELSE [run EXCEPT !.pc = "respond", !.status = 200]

Thrown(run) == [run EXCEPT !.pc = "respond", !.status = 500]

\* await supabase.from('checklists').insert({...}).select().single()
RaceChecklist(r, u) ==
  LET run == running[r]
      st == InsertChecklistRow(Running(Db), u, run.C, run.i)
      entered == [run EXCEPT !.checklistId = seq.checklist, !.k = 1,
                             !.folderIdMap = EmptyMap]
  IN  /\ run.pc = "checklist"
      /\ MayRun(running, r)
      /\ Commit(Stopped(st))
      /\ running' = [running EXCEPT ![r] =
                       IF ~st.ok THEN Thrown(run)
                       ELSE IF Len(run.C[run.i].folders) > 0
                            THEN [entered EXCEPT !.pc = "folder"]
                            ELSE AfterFolders(entered)]
      /\ UNCHANGED <<today, appDataHasId, client, last, prev>>

\* await supabase.from('checklist_folders').insert({...}).select().single():
\* the row references the new checklist, which another request may have deleted
RaceFolder(r) ==
  LET run == running[r]
      fs == run.C[run.i].folders
      fo == InsertFolders(Running(Db), run.checklistId, SubSeq(fs, 1, run.k), run.k,
                          run.folderIdMap)
  IN  /\ run.pc = "folder"
      /\ MayRun(running, r)
      /\ IF run.checklistId \notin Ids(checklists)
         THEN /\ Commit([Db EXCEPT !.seq.folder = @ + 1])
              /\ running' = [running EXCEPT ![r] = Thrown(run)]
         ELSE /\ Commit(Stopped(fo.st))
              /\ running' = [running EXCEPT ![r] =
                               IF ~fo.st.ok THEN Thrown(run)
                               ELSE IF run.k < Len(fs)
                                    THEN [run EXCEPT !.k = @ + 1,
                                                     !.folderIdMap = fo.folderIdMap]
                                    ELSE AfterFolders([run EXCEPT
                                                         !.folderIdMap = fo.folderIdMap])]
      /\ UNCHANGED <<today, appDataHasId, client, last, prev>>

\* await supabase.from('checklist_items').insert(itemsToInsert)
RaceItems(r) ==
  LET run == running[r]
      is == run.C[run.i].items
      st == InsertItems(Running(Db), run.checklistId, is, run.folderIdMap)
  IN  /\ run.pc = "items"
      /\ MayRun(running, r)
      /\ IF run.checklistId \notin Ids(checklists)
         THEN /\ Commit([Db EXCEPT !.seq.item = @ + Len(is)])
              /\ running' = [running EXCEPT ![r] = Thrown(run)]
         ELSE /\ Commit(Stopped(st))
              /\ running' = [running EXCEPT ![r] =
                               IF ~st.ok THEN Thrown(run) ELSE AfterItems(run)]
      /\ UNCHANGED <<today, appDataHasId, client, last, prev>>

\* the statement the request in slot r runs next
RaceStatement(r, u) ==
  \/ RaceBackup(r, u)
  \/ RaceDelete(r, u)
  \/ RaceChecklist(r, u)
  \/ RaceFolder(r)
  \/ RaceItems(r)

\* res.status(200).json({ success: true }), or the catch: res.status(500)
RaceRespond(r, cred, u) ==
  LET run == running[r]
      req == [Request("POST", "save", cred) EXCEPT !.hasArray = TRUE, !.C = run.C]
  IN  /\ run.pc = "respond"
      /\ Answer(req, u, run.status, TRUE,
                IF run.status = 200 THEN NoBody ELSE Error("Failed to process checklists"))
      /\ Commit(Db)
      /\ running' = [running EXCEPT ![r].pc = "done"]
      /\ UNCHANGED <<today, appDataHasId, client>>

----------------------------------------------------------------------------
(* The browser client: opsState, its loads and its save (index.html) *)

\* the account the browser session is signed in to
ClientUser == "u1"

\* authFetch sends the bearer token of the session
ClientCredentials == [token |-> ClientUser, user_id |-> NoUser]

\* opsState of a fresh page, and where autoLoadFromServer stands; called and
\* returned tell the client function that ran last and how it ended
FreshClient(session) ==
  [session |-> session, loadedFromServer |-> FALSE, checklists |-> <<>>,
   pc |-> "idle", called |-> "none", returned |-> "none"]

\* a save that never looks at the flag
SaveNeverSkipped(loadedFromServer) == FALSE

\* if (!opsState.loadedFromServer) return { success: true, skipped: true }
SaveSkipped(loadedFromServer) == ~loadedFromServer

\* the earlier autoLoadFromServer: it returns when the server has no patient data
ReturnsWithoutPatients(status, data) ==
  IF status = 404 \/ (status = 200 /\ data = EmptyObject) THEN "return"
  ELSE IF status # 200 THEN "throw"
  ELSE "continue"

\* autoLoadFromServer after GET /api/load: 404 goes on to the checklists, any
\* other status that is not ok throws, a document is processed
AfterPatients(status, data) ==
  IF status = 404 THEN "continue"
  ELSE IF status # 200 THEN "throw"
  ELSE "continue"

\* the page is opened or the user signs in: a new opsState
NewSession ==
  /\ client.session < MaxSessions
  /\ client' = FreshClient(client.session + 1)
  /\ UNCHANGED server

\* loadOpsData and the user's edits: opsState.checklists changes locally
EditLocal(C) ==
  /\ client' = [client EXCEPT !.checklists = C, !.called = "edit", !.returned = "none"]
  /\ UNCHANGED server

\* saveOpsToServerAsync
saveOpsToServerAsync ==
  IF SaveSkipped(client.loadedFromServer)
  THEN /\ client' = [client EXCEPT !.called = "saveOpsToServerAsync",
                                   !.returned = "skipped"]
       /\ UNCHANGED server
  ELSE /\ Save(ClientCredentials, TRUE, client.checklists, FALSE, <<>>)
       /\ UNCHANGED running
       /\ client' = [client EXCEPT !.called = "saveOpsToServerAsync",
                                   !.returned = IF last'.status = 200 THEN "saved"
                                                ELSE "failed"]

\* autoLoadFromServer up to its await of loadOpsAndSnippetsFromServer
autoLoadFromServer(fault) ==
  /\ client.pc = "idle"
  /\ UNCHANGED running
  /\ IF fault THEN LoadDocumentWithFault(ClientCredentials, Undefined)
     ELSE LoadDocument(ClientCredentials, Undefined)
  /\ LET next == AfterPatients(last'.status, last'.resp.data)
     IN  client' = [client EXCEPT
                      !.called = "autoLoadFromServer",
                      !.pc = IF next = "continue" THEN "ops" ELSE "idle",
                      !.returned = IF next = "continue" THEN "none"
                                   ELSE IF next = "throw" THEN "threw" ELSE "false"]

\* GET /api/checklists, opsState.checklists and the flag
LoadOps(from, name) ==
  /\ client.pc = from
  /\ UNCHANGED running
  /\ Load(ClientCredentials)
  /\ client' = IF last'.status = 200
               THEN [client EXCEPT !.checklists = last'.resp.checklists,
                                   !.loadedFromServer = TRUE, !.pc = "idle",
                                   !.called = name,
                                   !.returned = "true"]
               ELSE [client EXCEPT !.pc = "idle",
                                   !.called = name,
                                   !.returned = "threw"]

\* autoLoadFromServer from its await on: loadOpsAndSnippetsFromServer
loadOpsAndSnippetsFromServer == LoadOps("ops", "loadOpsAndSnippetsFromServer")

\* the button "Load from Server" of the operations tab
loadOpsFromServer == LoadOps("idle", "loadOpsFromServer")

\* importOpsData: the checklists of a JSON file
importOpsData(C) ==
  /\ client' = [client EXCEPT !.checklists = C, !.loadedFromServer = TRUE,
                              !.called = "importOpsData", !.returned = "true"]
  /\ UNCHANGED server

----------------------------------------------------------------------------
(* The inputs the specifications draw *)

Token(u) == [token |-> u, user_id |-> NoUser]

\* the ids a client can put in a completions key: those of rows in the store,
\* or a guess of the next ones the sequences hand out
KnownChecklistIds == Ids(checklists) \cup {seq.checklist}
KnownItemIds == Ids(items) \cup {seq.item}

CompletionBodies ==
  {<<>>} \cup
  {<<[key |-> Key(d, c), completedItems |-> is]>> :
     d \in {today - 1, today} \cap 1..MaxDay,
     c \in KnownChecklistIds,
     is \in {<<i>> : i \in KnownItemIds}}

\* the request does not take the checklist sequence beyond the bound
Fits(n, max) == seq.checklist + n - 1 <= max

\* restoring the row named, if any, does not take the sequence beyond the bound
RestoreFits(backupId, max) ==
  \A r \in appData :
    (appDataHasId /\ r.id = backupId /\ HasChecklists(r.data))
      => Fits(Len(r.data.checklists), max)

Init ==
  /\ checklists = {}
  /\ folders = {}
  /\ items = {}
  /\ completions = {}
  /\ appData = {}
  /\ appDataBackups = {}
  /\ seq = [checklist |-> 1, folder |-> 1, item |-> 1, app |-> 1]
  /\ now = 0
  /\ today = 1
  /\ appDataHasId \in BOOLEAN
  /\ client = FreshClient(1)
  /\ running = [r \in Slots |-> NoRun]
  /\ last = [req |-> NoRequest, userId |-> NoUser, status |-> 0, touched |-> FALSE,
             ownIds |-> FALSE, day |-> 1, resp |-> NoBody]
  /\ prev = NoPrev

----------------------------------------------------------------------------
(* Spec: the checklists, folders and items of two users, and their backups *)

SaveChecklists ==
  /\ UNCHANGED <<client, running>>
  /\ \E u \in Users, C \in Payloads :
       /\ Fits(Len(C), MaxSerial)
       /\ Save(Token(u), TRUE, C, FALSE, <<>>)

SaveInvalid ==
  /\ UNCHANGED <<client, running>>
  /\ \E u \in Users : Save(Token(u), FALSE, <<>>, FALSE, <<>>)

LoadChecklistsOf ==
  /\ UNCHANGED <<client, running>>
  /\ \E u \in Users : Load(Token(u))

ListBackupsOf ==
  /\ UNCHANGED <<client, running>>
  /\ \E u \in Users : ListBackups(Token(u))

RestoreBackupOf ==
  /\ UNCHANGED <<client, running>>
  /\ \E u \in Users, backupId \in 0..seq.app :
       /\ RestoreFits(backupId, MaxSerial)
       /\ RestoreBackup(Token(u), backupId)

Next ==
  \/ SaveChecklists
  \/ SaveInvalid
  \/ LoadChecklistsOf
  \/ ListBackupsOf
  \/ RestoreBackupOf

Spec == Init /\ [][Next]_vars

----------------------------------------------------------------------------
(* SpecCompletions: saves that carry completions, over several days *)

CompletionPayloads == { <<>>, <<DocAM>> }

SavePlain ==
  /\ UNCHANGED <<client, running>>
  /\ \E u \in Users, C \in CompletionPayloads :
       /\ Fits(Len(C), MaxCompSerial)
       /\ Save(Token(u), TRUE, C, FALSE, <<>>)

SaveWithCompletions ==
  /\ UNCHANGED <<client, running>>
  /\ \E u \in Users, C \in CompletionPayloads, comp \in CompletionBodies :
       /\ Fits(Len(C), MaxCompSerial)
       /\ Save(Token(u), TRUE, C, TRUE, comp)

LoadCompletionsOf ==
  /\ UNCHANGED <<client, running>>
  /\ \E u \in Users : Load(Token(u))

NextCompletions ==
  \/ SavePlain
  \/ SaveWithCompletions
  \/ LoadCompletionsOf
  \/ Midnight

SpecCompletions == Init /\ [][NextCompletions]_vars

----------------------------------------------------------------------------
(* SpecRing: enough saves to fill the backup ring *)

RingSave ==
  /\ UNCHANGED <<client, running>>
  /\ \E u \in Users :
       /\ Fits(1, MaxRingSerial)
       /\ Save(Token(u), TRUE, <<DocAM>>, FALSE, <<>>)

RingList ==
  /\ UNCHANGED <<client, running>>
  /\ \E u \in Users : ListBackups(Token(u))

RingRestore ==
  /\ UNCHANGED <<client, running>>
  /\ \E u \in Users, backupId \in 1..seq.app :
       /\ RestoreFits(backupId, MaxRingSerial)
       /\ RestoreBackup(Token(u), backupId)

NextRing ==
  \/ RingSave
  \/ RingList
  \/ RingRestore

SpecRing == Init /\ [][NextRing]_vars

----------------------------------------------------------------------------
(* SpecAuth: every endpoint under every kind of credentials *)

\* a token of u1 or none, a user_id parameter naming u2 or none
AuthCredentials == [token : {"u1", NoUser}, user_id : {"u2", NoUser}]

AuthLoad ==
  /\ UNCHANGED <<client, running>>
  /\ \E cred \in AuthCredentials : Load(cred)

AuthSave ==
  /\ UNCHANGED <<client, running>>
  /\ \E cred \in AuthCredentials, hasArray \in BOOLEAN :
       /\ Fits(1, MaxAuthSerial)
       /\ Save(cred, hasArray, <<DocAM>>, FALSE, <<>>)

AuthListBackups ==
  /\ UNCHANGED <<client, running>>
  /\ \E cred \in AuthCredentials : ListBackups(cred)

AuthRestoreBackup ==
  /\ UNCHANGED <<client, running>>
  /\ \E cred \in AuthCredentials, backupId \in 0..seq.app :
       /\ RestoreFits(backupId, MaxAuthSerial)
       /\ RestoreBackup(cred, backupId)

AuthLoadDocument ==
  /\ UNCHANGED <<client, running>>
  /\ \E cred \in AuthCredentials, type \in {Undefined, "labs", "bogus"} : LoadDocument(cred, type)

AuthSaveDocument ==
  /\ UNCHANGED <<client, running>>
  /\ \E cred \in AuthCredentials, type \in {Undefined, "bogus"}, data \in {NoData, [doc |-> "d1"]} :
       SaveDocument(cred, type, data)

NextAuth ==
  \/ AuthLoad
  \/ AuthSave
  \/ AuthListBackups
  \/ AuthRestoreBackup
  \/ AuthLoadDocument
  \/ AuthSaveDocument

SpecAuth == Init /\ [][NextAuth]_vars

----------------------------------------------------------------------------
(* SpecFaults: one user's saves and restores whose backup step fails *)

FaultPayloads == { <<>>, <<DocAM>> }

FaultSave ==
  /\ UNCHANGED <<client, running>>
  /\ \E C \in FaultPayloads :
       /\ Fits(Len(C), MaxFaultSerial)
       /\ Save(Token("u1"), TRUE, C, FALSE, <<>>)

FaultyBackupSave ==
  /\ UNCHANGED <<client, running>>
  /\ \E C \in FaultPayloads, fault \in BackupFaults :
       /\ Fits(Len(C), MaxFaultSerial)
       /\ SaveWithBackupFault(Token("u1"), C, fault)

FaultyBackupRestore ==
  /\ UNCHANGED <<client, running>>
  /\ \E backupId \in 1..seq.app, fault \in BackupFaults :
       /\ RestoreFits(backupId, MaxFaultSerial)
       /\ RestoreWithBackupFault(Token("u1"), backupId, fault)

NextFaults ==
  \/ FaultSave
  \/ FaultyBackupSave
  \/ FaultyBackupRestore

SpecFaults == Init /\ [][NextFaults]_vars

----------------------------------------------------------------------------
(* SpecOwn: one user's saves with completions, on one day *)

\* the completions bodies of SpecCompletions, and those that name an item twice
OwnCompletionBodies ==
  CompletionBodies \cup
  {<<[key |-> Key(today, c), completedItems |-> <<i, i>>]>> :
     c \in KnownChecklistIds, i \in KnownItemIds}

OwnSave ==
  /\ UNCHANGED <<client, running>>
  /\ \E C \in CompletionPayloads, comp \in OwnCompletionBodies :
       /\ Fits(Len(C), MaxOwnSerial)
       /\ Save(Token("u1"), TRUE, C, TRUE, comp)

OwnLoad ==
  /\ UNCHANGED <<client, running>>
  /\ Load(Token("u1"))

NextOwn ==
  \/ OwnSave
  \/ OwnLoad

SpecOwn == Init /\ [][NextOwn]_vars

----------------------------------------------------------------------------
(* SpecDocuments: the documents of two users *)

\* the type of a request: none, a valid one, one that is not valid
DocumentTypes == {Undefined, "labs", "bogus"}

\* body.data: absent, falsy, an object
DocumentData == {NoData, FalsyData, [doc |-> "d1"]}

DocSave ==
  /\ UNCHANGED <<client, running>>
  /\ \E u \in Users, type \in DocumentTypes, data \in DocumentData :
       SaveDocument(Token(u), type, data)

DocLoad ==
  /\ UNCHANGED <<client, running>>
  /\ \E u \in Users, type \in DocumentTypes : LoadDocument(Token(u), type)

DocLoadFault ==
  /\ UNCHANGED <<client, running>>
  /\ \E u \in Users, type \in DocumentTypes : LoadDocumentWithFault(Token(u), type)

DocLoadAnonymous ==
  /\ UNCHANGED <<client, running>>
  /\ \E type \in DocumentTypes : LoadDocument(NoCredentials, type)

NextDocuments ==
  \/ DocSave
  \/ DocLoad
  \/ DocLoadFault
  \/ DocLoadAnonymous

SpecDocuments == Init /\ [][NextDocuments]_vars

----------------------------------------------------------------------------
(* SpecClient: one account, a browser session and another device *)

ClientPayloads == { <<>>, <<DocAM>> }

\* the same account saves its checklists from another computer
OtherDeviceSave ==
  /\ UNCHANGED <<client, running>>
  /\ \E C \in ClientPayloads :
       /\ Fits(Len(C), MaxClientSerial)
       /\ Save(Token(ClientUser), TRUE, C, FALSE, <<>>)

\* the same account saves its patient data from another computer
OtherDeviceSavePatients ==
  /\ UNCHANGED <<client, running>>
  /\ SaveDocument(Token(ClientUser), Undefined, [doc |-> "d1"])

ClientNewSession == NewSession

ClientEdit == \E C \in ClientPayloads : EditLocal(C)

ClientSave ==
  /\ Fits(Len(client.checklists), MaxClientSerial)
  /\ saveOpsToServerAsync

ClientAutoLoad == \E fault \in BOOLEAN : autoLoadFromServer(fault)

ClientAutoLoadOps == loadOpsAndSnippetsFromServer

ClientLoadOps == loadOpsFromServer

ClientImport == \E C \in ClientPayloads : importOpsData(C)

NextClient ==
  \/ OtherDeviceSave
  \/ OtherDeviceSavePatients
  \/ ClientNewSession
  \/ ClientEdit
  \/ ClientSave
  \/ ClientAutoLoad
  \/ ClientAutoLoadOps
  \/ ClientLoadOps
  \/ ClientImport

SpecClient == Init /\ [][NextClient]_vars

----------------------------------------------------------------------------
(* SpecStore: one user's saves and restores in which a statement fails *)

StorePayloads == { <<DocAM>>, <<DocAM, DocBad>> }

\* the delete, or the first, second or third insert statement
FailAts == 0..3

\* no completions, or today's completion of an item in the store
StoreCompletionBodies ==
  {<<>>} \cup
  {<<[key |-> Key(today, i.checklist_id), completedItems |-> <<i.id>>]>> : i \in items}

StoreSave ==
  /\ UNCHANGED <<client, running>>
  /\ \E C \in StorePayloads, comp \in StoreCompletionBodies :
       /\ Fits(Len(C), MaxStoreSerial)
       /\ now < MaxStoreClock
       /\ Save(Token("u1"), TRUE, C, TRUE, comp)

StoreFaultSave ==
  /\ UNCHANGED <<client, running>>
  /\ \E C \in StorePayloads, comp \in StoreCompletionBodies, failAt \in FailAts :
       /\ Fits(Len(C), MaxStoreSerial)
       /\ now < MaxStoreClock
       /\ SaveWithStoreFault(Token("u1"), C, TRUE, comp, failAt)

StoreFaultRestore ==
  /\ UNCHANGED <<client, running>>
  /\ \E backupId \in 1..seq.app, failAt \in FailAts :
       /\ RestoreFits(backupId, MaxStoreSerial)
       /\ now < MaxStoreClock
       /\ RestoreWithStoreFault(Token("u1"), backupId, failAt)

NextStore ==
  \/ StoreSave
  \/ StoreFaultSave
  \/ StoreFaultRestore

SpecStore == Init /\ [][NextStore]_vars

----------------------------------------------------------------------------
(* Saves of one user whose statements interleave, and the Loads in between *)

MaxRaceSerial == 2

RaceUser == "u1"
RacePayloads == {<<DocAM>>, <<DocRev>>}

\* a Save that has answered before any other request arrives
RaceSeed ==
  /\ UNCHANGED <<client, running>>
  /\ \A r \in Slots : running[r].pc = "idle"
  /\ checklists = {}
  /\ Save(Token(RaceUser), TRUE, <<DocLoose>>, FALSE, <<>>)

RaceArrive ==
  \E r \in Slots, C \in RacePayloads :
    /\ Fits(Len(C), MaxRaceSerial)
    /\ RaceStart(r, RaceUser, C)

RaceStep ==
  \E r \in Slots : RaceStatement(r, RaceUser)

RaceAnswer ==
  \E r \in Slots : RaceRespond(r, Token(RaceUser), RaceUser)

NextRace ==
  \/ RaceSeed
  \/ RaceArrive
  \/ RaceStep
  \/ RaceAnswer

SpecRace == Init /\ [][NextRace]_vars

\* the same with the Loads of the user in between
RaceLoad ==
  /\ UNCHANGED <<client, running>>
  /\ Load(Token(RaceUser))

NextOverlap ==
  \/ RaceSeed
  \/ RaceArrive
  \/ RaceStep
  \/ RaceAnswer
  \/ RaceLoad

SpecOverlap == Init /\ [][NextOverlap]_vars

----------------------------------------------------------------------------
(* A client that saves back what it has loaded *)

MaxEchoSerial == 5

EchoUser == "u1"

EchoSave ==
  /\ UNCHANGED <<client, running>>
  /\ \E C \in Payloads :
       /\ Fits(Len(C), MaxEchoSerial)
       /\ Save(Token(EchoUser), TRUE, C, FALSE, <<>>)

EchoLoad ==
  /\ UNCHANGED <<client, running>>
  /\ Load(Token(EchoUser))

\* POST save with the checklists of the response the client has just received
EchoSaveBack ==
  /\ UNCHANGED <<client, running>>
  /\ last.req.action = "load"
  /\ last.status = 200
  /\ Fits(Len(last.resp.checklists), MaxEchoSerial)
  /\ Save(Token(last.userId), TRUE, last.resp.checklists, FALSE, <<>>)

NextEcho ==
  \/ EchoSave
  \/ EchoLoad
  \/ EchoSaveBack

SpecEcho == Init /\ [][NextEcho]_vars

----------------------------------------------------------------------------
(* Vocabulary of the claims *)

\* this step handles a request of the given action (the date does not change)
Handles(action) == last'.req.action = action /\ today' = today

Bijections(n) == {f \in [1..n -> 1..n] : \A i, j \in 1..n : i # j => f[i] # f[j]}

\* a body the Save contract calls valid: names, labels and texts present, folder
\* ids distinct and not 0, every folderId absent or naming a folder of its checklist
ValidDoc(d) ==
  /\ d.name # Undefined
  /\ d.position # Undefined
  /\ \A k \in DOMAIN d.folders : d.folders[k].name # Undefined /\ d.folders[k].id # 0
  /\ \A j, k \in DOMAIN d.folders : j # k => d.folders[j].id # d.folders[k].id
  /\ \A k \in DOMAIN d.items :
       /\ d.items[k].text # Undefined
       /\ d.items[k].folderId = 0 \/ \E j \in DOMAIN d.folders : d.folders[j].id = d.items[k].folderId

ValidBody(C) == \A i \in DOMAIN C : ValidDoc(C[i])

\* the latest request is a Load that follows directly a successful Save of the same user
SaveThenLoad ==
  /\ prev.action = "save"
  /\ last.req.action = "load"
  /\ last.status = 200
  /\ last.userId = prev.userId

\* the loaded checklist `got` is the sent checklist `d` when the sent folders sit
\* at the places fp and the sent items at the places ip of the loaded arrays
SameChecklist(d, got, fp, ip) ==
  /\ got.name = d.name
  /\ got.position = d.position
  /\ Len(got.folders) = Len(d.folders)
  /\ Len(got.items) = Len(d.items)
  /\ \A k \in DOMAIN d.folders :
       /\ got.folders[fp[k]].name = d.folders[k].name
       /\ got.folders[fp[k]].order = d.folders[k].order
  /\ \A k \in DOMAIN d.items :
       /\ got.items[ip[k]].text = d.items[k].text
       /\ got.items[ip[k]].order = d.items[k].order
       /\ got.items[ip[k]].url = d.items[k].url
       /\ IF d.items[k].folderId = 0 THEN got.items[ip[k]].folderId = 0
          ELSE \E j \in DOMAIN d.folders :
                 /\ d.folders[j].id = d.items[k].folderId
                 /\ got.items[ip[k]].folderId = got.folders[fp[j]].id

Identity(n) == [k \in 1..n |-> k]

Ascending(s) == \A j, k \in DOMAIN s : j < k => s[j].order <= s[k].order

----------------------------------------------------------------------------
(* C1 *)

----------------------------------------------------------------------------
(* C8, C9, C10: backups taken and backups restored *)

\* the backupId of the request names a backup row of a user other than the caller
NamesForeignBackup(l) ==
  /\ l.req.action = "restore_backup"
  /\ l.userId # NoUser
  /\ l.req.backupId # 0
  /\ \E r \in appData : r.id = l.req.backupId /\ IsBackupType(r.type) /\ r.user_id # l.userId

\* the backupId of the request names no row of the caller
NamesNoOwnBackup(l) ==
  /\ l.req.action = "restore_backup"
  /\ l.userId # NoUser
  /\ l.req.backupId # 0
  /\ \A r \in appData : r.id = l.req.backupId => r.user_id # l.userId

\* C8: a RestoreBackup naming a backup of another user fails and leaves every
\* table as it was: no backup is taken, nothing is deleted, nothing is inserted.
C8_ForeignRestoreChangesNothing ==
  [][(Handles("restore_backup") /\ NamesForeignBackup(last')) =>
       /\ last'.status = 404
       /\ UNCHANGED <<checklists, folders, items, completions, appData, seq>>]_vars

\* the caller owns checklists and named a backup of another user
C8_Witness ==
  /\ NamesForeignBackup(last)
  /\ last.status = 404
  /\ ChecklistsOf(Db, last.userId) # {}
  /\ \E r \in appData : r.id = last.req.backupId /\ Len(r.data.checklists) > 0

\* C9: a RestoreBackup naming another user's backup and one naming no backup at
\* all get the same answer, 404 "Backup not found".
C9_SameAnswerForForeignAndMissing ==
  [][(Handles("restore_backup") /\ NamesNoOwnBackup(last')) =>
       /\ last'.status = 404
       /\ last'.resp = Error("Backup not found")]_vars

\* a backup of another user was named where app_data rows can be told apart by id
C9_Witness ==
  /\ NamesForeignBackup(last)
  /\ appDataHasId
  /\ last.resp = Error("Backup not found")
  /\ \E b \in 1..seq.app : \A r \in appData : r.id # b

\* C10: a Save by a user who owns a checklist adds exactly one row to that user's
\* backups, holding the user's checklists, folders and items as they were before
\* the Save deleted them, so its counts are those of the state before the Save.
C10_SaveAddsOneBackup ==
  [][(Handles("save") /\ last'.req.hasArray /\ last'.userId # NoUser
        /\ ChecklistsOf(Db, last'.userId) # {}) =>
       \E row \in appData' :
         /\ {r \in appData' : r.user_id = last'.userId /\ IsBackupType(r.type)}
              \ BackupsOf(Db, last'.userId) = {row}
         /\ Range(row.data.checklists) = ChecklistsOf(Db, last'.userId)
         /\ Len(row.data.checklists) = Cardinality(ChecklistsOf(Db, last'.userId))
         /\ Range(row.data.folders) = FoldersIn(Db, Ids(ChecklistsOf(Db, last'.userId)))
         /\ Range(row.data.items) = ItemsIn(Db, Ids(ChecklistsOf(Db, last'.userId)))
         /\ Len(row.data.items) = Cardinality(ItemsIn(Db, Ids(ChecklistsOf(Db, last'.userId))))]_vars

\* a Save has replaced checklists with items, and its backup is the newest row
C10_Witness ==
  /\ last.req.action = "save"
  /\ last.status = 200
  /\ \E row \in BackupsOf(Db, last.userId) :
       /\ row.updated_at = now
       /\ Len(row.data.checklists) > 0
       /\ Len(row.data.items) > 0
       /\ Range(row.data.checklists) \cap checklists = {}

----------------------------------------------------------------------------
(* C2, C4, C5: completions *)

\* the completion rows of the checklists u owns
CompletionsOf(cs, comps, u) ==
  {c \in comps : \E x \in cs : x.user_id = u /\ x.id = c.checklist_id}

\* C2: a Save by U whose completions name no checklist of another user leaves
\* the completion rows of every other user V as they were: today's rows are
\* deleted only under checklists that U owns.
C2_SaveKeepsOthersCompletions ==
  [][(/\ Handles("save")
      /\ last'.req.hasArray
      /\ last'.userId # NoUser
      /\ \A k \in DOMAIN last'.req.comp :
           \A c \in checklists :
             c.id = KeyChecklistId(last'.req.comp[k].key) => c.user_id = last'.userId) =>
       \A v \in Users \ {last'.userId} :
         CompletionsOf(checklists', completions', v) = CompletionsOf(checklists, completions, v)]_vars

\* C4: after a successful Save by U that sends U's checklists again, with
\* completions keyed by today's date and by checklists and items that U owned
\* when it called, a Load by U on the same date returns under each of those keys
\* exactly the item ids that were sent.
C4_CompletionsReload ==
  (/\ prev.action = "save"
   /\ prev.C # <<>>
   /\ prev.hasComp
   /\ prev.ownIds
   /\ \A k \in DOMAIN prev.comp : KeyDate(prev.comp[k].key) = prev.day
   /\ last.req.action = "load"
   /\ last.status = 200
   /\ last.userId = prev.userId
   /\ last.day = prev.day) =>
     \A k \in DOMAIN prev.comp :
       \E e \in last.resp.completions :
         /\ e.key = prev.comp[k].key
         /\ e.completedItems = Range(prev.comp[k].completedItems)

\* C5: a Save by U, without completions or with completions keyed by today's
\* date, leaves U's completion rows of every date other than today as they were.
C5_SaveKeepsPriorDates ==
  [][(/\ Handles("save")
      /\ last'.req.hasArray
      /\ last'.userId # NoUser
      /\ \A k \in DOMAIN last'.req.comp : KeyDate(last'.req.comp[k].key) = today) =>
       {c \in CompletionsOf(checklists', completions', last'.userId) : c.completion_date # today}
         = {c \in CompletionsOf(checklists, completions, last'.userId) : c.completion_date # today}]_vars

----------------------------------------------------------------------------
(* C3: requests without a bearer token *)

\* C3: a request whose bearer token the identity verifier does not accept is
\* answered 401 and does not query the store, whatever parameters it carries.
C3_NoTokenNoAccess ==
  (last.req.action # "none" /\ verifyAuth(last.req.cred) = NoUser) =>
     (last.status = 401 /\ ~last.touched)

----------------------------------------------------------------------------
(* C6, C7: the backup ring *)

\* C6: after every Save and every RestoreBackup each user has at most
\* MAX_BACKUPS checklist backups in app_data.
C6_AtMostFiveBackups ==
  \A u \in Users : Cardinality(BackupsOf(Db, u)) <= MAX_BACKUPS

\* C7: when a new backup of a user who already has MAX_BACKUPS of them is
\* created, MAX_BACKUPS backups remain, the new one among them, and every backup
\* removed is older than every backup kept.
C7_OldestEvicted ==
  [][\A u \in Users :
       LET old == BackupsOf(Db, u)
           new == {r \in appData' : r.user_id = u /\ IsBackupType(r.type)}
       IN  (new \ old # {} /\ Cardinality(old) >= MAX_BACKUPS) =>
             /\ Cardinality(new) = MAX_BACKUPS
             /\ \A gone \in old \ new, kept \in new : gone.updated_at < kept.updated_at]_vars

----------------------------------------------------------------------------
(* C11, C12: restoring a backup *)

FolderShape(f) == [name |-> f.name, order |-> f.sort_order]

NoFolder == [name |-> Undefined, order |-> 0]

\* an item row without its ids, under the folder row it references
ItemShape(i, fs) ==
  [text |-> i.item_text, order |-> i.sort_order, url |-> i.url,
   folder |-> IF \E f \in fs : f.id = i.folder_id
              THEN FolderShape(CHOOSE f \in fs : f.id = i.folder_id)
              ELSE NoFolder]

\* a checklist row with the folder and item rows under it, all without their ids
ChecklistShape(c, fs, is) ==
  LET own == {f \in fs : f.checklist_id = c.id}
      its == {i \in is : i.checklist_id = c.id}
  IN  [name |-> c.name, position |-> c.position, label |-> RoleOf(c.role),
       nFolders |-> Cardinality(own), nItems |-> Cardinality(its),
       folders |-> {FolderShape(f) : f \in own},
       items |-> {ItemShape(i, own) : i \in its}]

\* what a user owns in db, without the ids
OwnedShape(db, u) ==
  [n |-> Cardinality(ChecklistsOf(db, u)),
   docs |-> {ChecklistShape(c, db.folders, db.items) : c \in ChecklistsOf(db, u)}]

\* a checklist of a Load response, without its ids, taken to sit at position pos
LoadedShape(doc, pos) ==
  [name |-> doc.name, position |-> pos, label |-> doc.position,
   nFolders |-> Len(doc.folders), nItems |-> Len(doc.items),
   folders |-> {[name |-> doc.folders[k].name, order |-> doc.folders[k].order] :
                  k \in DOMAIN doc.folders},
   items |-> {[text |-> doc.items[k].text, order |-> doc.items[k].order,
               url |-> doc.items[k].url,
               folder |-> IF \E j \in DOMAIN doc.folders : doc.folders[j].id = doc.items[k].folderId
                          THEN LET j == CHOOSE j \in DOMAIN doc.folders :
                                          doc.folders[j].id = doc.items[k].folderId
                               IN  [name |-> doc.folders[j].name, order |-> doc.folders[j].order]
                          ELSE NoFolder] : k \in DOMAIN doc.items}]

\* C11: a RestoreBackup by a user who owns a checklist stores, before it deletes
\* anything, a snapshot of the user's checklists, folders and items; the
\* snapshot is the user's newest backup, and a restore of it on the state the
\* first restore left gives the user back what they owned before, up to ids.
C11_RestoreIsUndoable ==
  [][(/\ Handles("restore_backup")
      /\ last'.status = 200
      /\ ChecklistsOf(Db, last'.userId) # {}) =>
       \E row \in appData' \ appData :
         /\ row.user_id = last'.userId
         /\ IsBackupType(row.type)
         /\ \A r \in appData' :
              (r.user_id = last'.userId /\ IsBackupType(r.type)) => r.updated_at <= row.updated_at
         /\ Range(row.data.checklists) = ChecklistsOf(Db, last'.userId)
         /\ Range(row.data.folders) = FoldersIn(Db, Ids(ChecklistsOf(Db, last'.userId)))
         /\ Range(row.data.items) = ItemsIn(Db, Ids(ChecklistsOf(Db, last'.userId)))
         /\ FetchBackup(Db', last'.userId, row.id, appDataHasId) = {row}
         /\ OwnedShape(Restored(Db', last'.userId, row, appDataHasId), last'.userId)
              = OwnedShape(Db, last'.userId)]_vars

\* a restore has replaced checklists with folders and items by those of a backup,
\* and the snapshot of what it replaced is the newest backup
C11_Witness ==
  /\ last.req.action = "restore_backup"
  /\ last.status = 200
  /\ checklists # {}
  /\ \E row \in BackupsOf(Db, last.userId) :
       /\ row.updated_at = now
       /\ row.id # last.req.backupId
       /\ Len(row.data.folders) > 0
       /\ Len(row.data.items) > 0

----------------------------------------------------------------------------
(* C13, C14, C15: what a Save stores, as Load shows it *)

\* C13: a Save with an empty checklists array is answered 200 and leaves the user
\* without checklists, and no folder or item without its checklist; a Load that
\* follows it directly answers 200 with no checklists and no completions.
C13_SaveEmptyClears ==
  /\ (/\ last.req.action = "save"
      /\ last.req.hasArray
      /\ last.req.C = <<>>
      /\ last.userId # NoUser) =>
        /\ last.status = 200
        /\ ChecklistsOf(Db, last.userId) = {}
        /\ \A f \in folders : f.checklist_id \in Ids(checklists)
        /\ \A i \in items : i.checklist_id \in Ids(checklists)
  /\ (SaveThenLoad /\ prev.C = <<>>) =>
        /\ last.resp.checklists = <<>>
        /\ last.resp.completions = {}
        /\ last.resp.error = ""

\* a user who owned checklists with folders and items saved an empty array, then loaded
C13_Witness ==
  /\ SaveThenLoad
  /\ prev.C = <<>>
  /\ last.resp.checklists = <<>>
  /\ \E b \in BackupsOf(Db, last.userId) :
       b.updated_at = now /\ Len(b.data.folders) > 0 /\ Len(b.data.items) > 0

\* C14 as stated: after the Save of the one checklist "AM Checks", Load returns
\* one checklist with name "AM Checks", role "Tech" and position 0, with a
\* folder "Vitals" that contains the item "Check BP", which has a positive id.
C14_LoadReturnsRoleAndPosition ==
  (SaveThenLoad /\ prev.C = <<DocAM>>) =>
     /\ Len(last.resp.checklists) = 1
     /\ LET got == last.resp.checklists[1]
        IN  /\ got.name = "AM Checks"
            /\ "role" \in DOMAIN got
            /\ got.role = "Tech"
            /\ got.position = 0
            /\ Len(got.folders) = 1
            /\ got.folders[1].name = "Vitals"
            /\ Len(got.items) = 1
            /\ got.items[1].text = "Check BP"
            /\ got.items[1].folderId = got.folders[1].id
            /\ got.items[1].id \in Nat \ {0}

\* C14 amended: after the Save of the one checklist "AM Checks", Load returns one
\* checklist with name "AM Checks" and the label "Tech" under the key position,
\* and no key role; the row stored for it has role "Tech" and position 0. It has
\* a folder "Vitals" that contains the item "Check BP", which has a positive id.
C14_LoadReturnsLabelAsPosition ==
  (SaveThenLoad /\ prev.C = <<DocAM>>) =>
     /\ Len(last.resp.checklists) = 1
     /\ LET got == last.resp.checklists[1]
        IN  /\ got.name = "AM Checks"
            /\ "role" \notin DOMAIN got
            /\ got.position = "Tech"
            /\ \E c \in ChecklistsOf(Db, last.userId) :
                 c.id = got.id /\ c.role = "Tech" /\ c.position = 0
            /\ Len(got.folders) = 1
            /\ got.folders[1].name = "Vitals"
            /\ Len(got.items) = 1
            /\ got.items[1].text = "Check BP"
            /\ got.items[1].folderId = got.folders[1].id
            /\ got.items[1].id \in Nat \ {0}

\* the checklist "AM Checks" was saved alone and loaded
C14_Witness ==
  /\ SaveThenLoad
  /\ prev.C = <<DocAM>>
  /\ Len(last.resp.checklists) = 1
  /\ last.resp.checklists[1].name = "AM Checks"

\* item k of the sent checklist d has a folderId that no folder of d carries
Dangling(d, k) ==
  /\ d.items[k].folderId # 0
  /\ \A j \in DOMAIN d.folders : d.folders[j].id # d.items[k].folderId

\* every name and text the tables require is in the body
NamesPresent(C) ==
  \A i \in DOMAIN C :
    /\ C[i].name # Undefined
    /\ \A k \in DOMAIN C[i].folders : C[i].folders[k].name # Undefined
    /\ \A k \in DOMAIN C[i].items : C[i].items[k].text # Undefined

\* C15: a Save whose body has the names and texts the tables require is answered
\* 200 also when an item's folderId matches no folder of its checklist, and a
\* Load that follows returns that item with folderId null.
C15_DanglingFolderIdIsNull ==
  /\ (/\ last.req.action = "save"
      /\ last.req.hasArray
      /\ last.userId # NoUser
      /\ NamesPresent(last.req.C)) => last.status = 200
  /\ SaveThenLoad =>
       /\ Len(last.resp.checklists) = Len(prev.C)
       /\ \A i \in DOMAIN prev.C :
            \A k \in DOMAIN prev.C[i].items :
              Dangling(prev.C[i], k) =>
                \E j \in DOMAIN last.resp.checklists[i].items :
                  /\ last.resp.checklists[i].items[j].text = prev.C[i].items[k].text
                  /\ last.resp.checklists[i].items[j].folderId = 0

\* a body with a dangling folderId was saved and its item loaded without folder
C15_Witness ==
  /\ SaveThenLoad
  /\ \E i \in DOMAIN prev.C :
       \E k \in DOMAIN prev.C[i].items :
         /\ Dangling(prev.C[i], k)
         /\ \E j \in DOMAIN last.resp.checklists[i].items :
              /\ last.resp.checklists[i].items[j].text = prev.C[i].items[k].text
              /\ last.resp.checklists[i].items[j].folderId = 0

----------------------------------------------------------------------------
(* C18: the validation of a save request *)

\* C18: a save request whose checklists field is missing or no array is answered
\* 400 and changes no table: no backup row is added and no row is deleted or inserted.
C18_InvalidSaveChangesNothing ==
  [][(Handles("save") /\ ~last'.req.hasArray /\ last'.userId # NoUser) =>
       /\ last'.status = 400
       /\ UNCHANGED <<checklists, folders, items, completions, appData, seq>>]_vars

\* a user who owns checklists sent a save request without a checklists array
C18_Witness ==
  /\ last.req.action = "save"
  /\ ~last.req.hasArray
  /\ last.status = 400
  /\ ChecklistsOf(Db, last.userId) # {}
  /\ BackupsOf(Db, last.userId) # {}

----------------------------------------------------------------------------
(* C16: failures inside backup creation *)

\* C16: a Save or a RestoreBackup during which a store operation of the backup
\* step fails gets the response, and leaves the checklists, folders and items,
\* that the same request gets and leaves when the backup step succeeds; the
\* failure is not answered as an error.
C16_BackupFailureIsNotFatal ==
  [][(/\ last'.req.fault # NoFault
      /\ last'.userId # NoUser
      /\ today' = today) =>
       LET u == last'.userId
           found == FetchBackup(Db, u, last'.req.backupId, appDataHasId)
       IN  /\ last'.req.action = "save" =>
                LET st == Saved(Db, u, last'.req.C, appDataHasId)
                IN  /\ st.ok
                    /\ last'.status = 200
                    /\ last'.resp = NoBody
                    /\ checklists' = st.checklists
                    /\ folders' = st.folders
                    /\ items' = st.items
           /\ (last'.req.action = "restore_backup" /\ Cardinality(found) = 1) =>
                LET db == Restored(Db, u, CHOOSE r \in found : TRUE, appDataHasId)
                IN  /\ last'.status = 200
                    /\ last'.resp = NoBody
                    /\ checklists' = db.checklists
                    /\ folders' = db.folders
                    /\ items' = db.items]_vars

\* a restore by a user who owned checklists went through although the insert of
\* the snapshot failed: the user has checklists and no backup newer than the clock
C16_Witness ==
  /\ last.req.action = "restore_backup"
  /\ last.req.fault = "insert"
  /\ last.status = 200
  /\ ChecklistsOf(Db, last.userId) # {}
  /\ \A b \in BackupsOf(Db, last.userId) : b.updated_at < now

----------------------------------------------------------------------------
(* C17, C19, C20: the completion rows a Save inserts *)

\* the insert of the completion rows of the latest request failed: none is stored
CompletionsInsertFailed ==
  /\ last.req.hasComp
  /\ last.req.comp # <<>>
  /\ \A k \in DOMAIN last.req.comp :
       \A j \in DOMAIN last.req.comp[k].completedItems :
         \A c \in completions :
           Triple(c) # <<KeyChecklistId(last.req.comp[k].key),
                         last.req.comp[k].completedItems[j],
                         KeyDate(last.req.comp[k].key)>>

\* C17: a Save with completions whose structural steps go through is answered
\* 200 and leaves the checklists, folders and items its loop inserted, whether
\* the insert of the completion rows fails or not.
C17_CompletionsFailureKeepsSave ==
  [][(/\ Handles("save")
      /\ last'.req.hasArray
      /\ last'.req.hasComp
      /\ last'.userId # NoUser
      /\ Saved(Db, last'.userId, last'.req.C, appDataHasId).ok) =>
       LET st == Saved(Db, last'.userId, last'.req.C, appDataHasId)
       IN  /\ last'.status = 200
           /\ last'.resp = NoBody
           /\ checklists' = st.checklists
           /\ folders' = st.folders
           /\ items' = st.items]_vars

\* a Save stored a checklist with its item while the insert of its completion rows failed
C17_Witness ==
  /\ last.req.action = "save"
  /\ last.status = 200
  /\ CompletionsInsertFailed
  /\ ItemsIn(Db, Ids(ChecklistsOf(Db, last.userId))) # {}

\* C19: the completion rows a Save by U inserts reference a checklist that U
\* owns and an item of that checklist, and every folder, item and completion
\* row references a checklist that exists.
C19_RowsStayWithTheirOwner ==
  [][(Handles("save") /\ last'.userId # NoUser) =>
       /\ \A c \in completions' \ completions :
            \E cl \in checklists' :
              /\ cl.id = c.checklist_id
              /\ cl.user_id = last'.userId
              /\ \E i \in items' : i.id = c.item_id /\ i.checklist_id = cl.id
       /\ \A f \in folders' : f.checklist_id \in Ids(checklists')
       /\ \A i \in items' : i.checklist_id \in Ids(checklists')
       /\ \A c \in completions' : c.checklist_id \in Ids(checklists')]_vars

\* a sequence without the repetitions of its elements
RECURSIVE Distinct(_)
Distinct(s) ==
  IF s = <<>> THEN <<>>
  ELSE LET front == Distinct(SubSeq(s, 1, Len(s) - 1))
       IN  IF s[Len(s)] \in Range(front) THEN front ELSE Append(front, s[Len(s)])

\* the completions body with every item named once under its key
Once(comp) ==
  [k \in DOMAIN comp |-> [comp[k] EXCEPT !.completedItems = Distinct(@)]]

\* C20: a Save whose completions name an item more than once under a key stores
\* the completion rows that the same Save stores when the item is named once.
C20_RepeatedCompletionIsOneRow ==
  [][(/\ Handles("save")
      /\ last'.status = 200
      /\ last'.req.hasComp
      /\ last'.userId # NoUser) =>
       completions' =
         SaveCompletions(Stopped(Saved(Db, last'.userId, last'.req.C, appDataHasId)),
                         last'.userId, Once(last'.req.comp), today).completions]_vars

----------------------------------------------------------------------------
(* C21: list_backups *)

\* C21: list_backups changes nothing in the store, and the list it returns to
\* U holds at most 5 entries, each the id, checklist count, item count and
\* timestamp of a backup row of U, newest first and none newer left out.
C21_ListBackupsIsOwnNewestFive ==
  [][(Handles("list_backups") /\ last'.userId # NoUser) =>
       /\ Db' = Db
       /\ last'.status = 200 =>
            LET list == last'.resp.backups
                own == BackupsOf(Db, last'.userId)
                listed == {r \in own : \E k \in DOMAIN list : list[k].id = r.id}
            IN  /\ Len(list) <= 5
                /\ Len(list) = IF Cardinality(own) > 5 THEN 5 ELSE Cardinality(own)
                /\ \A k \in DOMAIN list :
                     \E r \in own :
                       /\ list[k].id = r.id
                       /\ list[k].timestamp = r.data.backupTimestamp
                       /\ list[k].checklistCount = Len(r.data.checklists)
                       /\ list[k].itemCount = Len(r.data.items)
                /\ \A j, k \in DOMAIN list : j < k => list[j].timestamp > list[k].timestamp
                /\ \A r \in listed, o \in own \ listed : o.updated_at < r.updated_at]_vars

\* a user is answered four backups while the other user has a backup too
C21_Witness ==
  /\ last.req.action = "list_backups"
  /\ last.status = 200
  /\ Len(last.resp.backups) = 4
  /\ \E u \in Users \ {last.userId} : BackupsOf(Db, u) # {}
  /\ \E k \in DOMAIN last.resp.backups :
       last.resp.backups[k].checklistCount > 0 /\ last.resp.backups[k].itemCount > 0

----------------------------------------------------------------------------
(* C22, C23: the document endpoints *)

\* C22: load-document by an authenticated user with a valid type and no stored
\* document is answered 200 with the empty object, and a load-document of an
\* authenticated user with a valid type is answered an error only when the
\* store fails.
C22_NoDocumentIsEmptyObject ==
  (/\ last.req.action = "load_document"
   /\ last.userId # NoUser
   /\ TypeOrDefault(last.req.type) \in ValidTypes) =>
    /\ (last.req.fault = NoFault
        /\ DocumentsOf(Db, last.userId, TypeOrDefault(last.req.type)) = {}) =>
         (last.status = 200 /\ last.resp.data = EmptyObject /\ last.resp.error = "")
    /\ last.status # 200 => last.req.fault # NoFault

\* a user who stored no labs is answered the empty object while the other user has labs
C22_Witness ==
  /\ last.req.action = "load_document"
  /\ last.req.type = "labs"
  /\ last.status = 200
  /\ last.resp.data = EmptyObject
  /\ DocumentsOf(Db, last.userId, "labs") = {}
  /\ \E u \in Users \ {last.userId} : DocumentsOf(Db, u, "labs") # {}

\* C23: a load-document that follows a save-document of the same user and type
\* returns the data of that save, whatever JSON value it is, and the user has
\* at most one document of the type.
C23_SaveThenLoadReturnsData ==
  [][(/\ Handles("load_document")
      /\ last'.status = 200
      /\ last.req.action = "save_document"
      /\ last.status = 200
      /\ last.req.data # NoData
      /\ last.userId = last'.userId
      /\ TypeOrDefault(last.req.type) = TypeOrDefault(last'.req.type)) =>
       /\ last'.resp.data = last.req.data
       /\ Cardinality(DocumentsOf(Db', last'.userId, TypeOrDefault(last'.req.type))) <= 1]_vars

\* the backup history of a user's documents of a type
HistoryOf(backups, u, type) == {b \in backups : b.user_id = u /\ b.type = type}

\* C24: a save-document answered 200 leaves the saved data as an entry of the
\* backup history of its (type, user), which holds at most 30 entries, and
\* leaves the histories of the other users as they were.
C24_SaveDocumentKeepsHistory ==
  [][(Handles("save_document") /\ last'.status = 200) =>
       LET type == TypeOrDefault(last'.req.type)
           history == HistoryOf(appDataBackups', last'.userId, type)
       IN  /\ \E b \in history : b.data = DataToSave(last'.req.data)
           /\ Cardinality(history) <= 30
           /\ \A u \in Users \ {last'.userId} :
                HistoryOf(appDataBackups', u, type) = HistoryOf(appDataBackups, u, type)]_vars

----------------------------------------------------------------------------
(* C25, C26: the browser session *)

\* C25: a session starts with the loaded flag false, and while the flag is
\* false saveOpsToServerAsync returns skipped without a request to the server,
\* and no step of the session changes what the server stores.
C25_NoSaveBeforeLoad ==
  [][/\ client.called = "none" => ~client.loadedFromServer
     /\ client'.session # client.session => ~client'.loadedFromServer
     /\ (~client.loadedFromServer /\ client' # client) =>
          /\ UNCHANGED <<checklists, folders, items, completions, appData, appDataBackups>>
          /\ client'.called = "saveOpsToServerAsync" =>
               (client'.returned = "skipped" /\ UNCHANGED server)]_vars

\* the save of an empty opsState is skipped between the two requests of the
\* automatic load, while the server holds checklists of the account
C25_Witness ==
  /\ ~client.loadedFromServer
  /\ client.called = "saveOpsToServerAsync"
  /\ client.returned = "skipped"
  /\ client.pc = "ops"
  /\ client.checklists = <<>>
  /\ ChecklistsOf(Db, ClientUser) # {}

\* C26: when GET /api/load finds no patient document autoLoadFromServer goes on
\* to loadOpsAndSnippetsFromServer, and when that has loaded the checklists the
\* loaded flag is true and opsState holds the checklists the server answered.
C26_ChecklistsLoadWithoutPatients ==
  [][/\ (/\ last'.req.action = "load_document"
         /\ client'.called = "autoLoadFromServer"
         /\ last'.req.fault = NoFault
         /\ DocumentsOf(Db, ClientUser, "flowsheet") = {}) =>
          client'.pc = "ops"
     /\ (/\ client.pc = "ops"
         /\ client'.called = "loadOpsAndSnippetsFromServer"
         /\ client'.session = client.session
         /\ client' # client) =>
          /\ last'.req.action = "load"
          /\ last'.status = 200
          /\ client'.loadedFromServer
          /\ client'.checklists = last'.resp.checklists]_vars

\* the automatic load has filled opsState with the account's checklists though
\* the account has no patient document
C26_Witness ==
  /\ client.called = "loadOpsAndSnippetsFromServer"
  /\ client.loadedFromServer
  /\ client.checklists # <<>>
  /\ last.req.action = "load"
  /\ prev.action = "none"
  /\ DocumentsOf(Db, ClientUser, "flowsheet") = {}

----------------------------------------------------------------------------
(* C27, C28: store errors after the backup step *)

\* the rows a request has inserted
NewChecklists == {c \in checklists' : c.id >= seq.checklist}

\* the Save answered 500 has inserted nothing after the error: its new
\* checklists are the first ones of the body, each but the last with the
\* folders and items of the body, and no completion row is new
NothingFurther ==
  /\ completions' \subseteq completions
  /\ \A c \in NewChecklists :
       /\ c.position + 1 \in DOMAIN last'.req.C
       /\ c.name = last'.req.C[c.position + 1].name
       /\ \A k \in 0..c.position : \E b \in NewChecklists : b.position = k
       /\ (\E b \in NewChecklists : b.position > c.position) =>
            /\ Cardinality(FoldersIn(Db', {c.id})) = Len(last'.req.C[c.position + 1].folders)
            /\ Cardinality(ItemsIn(Db', {c.id})) = Len(last'.req.C[c.position + 1].items)
  /\ Cardinality(NewChecklists) <= Len(last'.req.C)
  /\ \A f \in folders' : f.checklist_id \in Ids(NewChecklists) \/ f \in folders
  /\ \A i \in items' : i.checklist_id \in Ids(NewChecklists) \/ i \in items

\* the state before the request is the snapshot of a backup row written by it
PreStateBackedUp ==
  ChecklistsOf(Db, last'.userId) # {} =>
    \E b \in BackupsOf(Db', last'.userId) \ BackupsOf(Db, last'.userId) :
      b.data = BackupData(Db, last'.userId, b.data.backupTimestamp)

\* C27 as stated: a Save answered 500 after its backup step has inserted
\* nothing after the error and no completion row, the rows of before the Save
\* are gone, and the state of before the Save is in a backup.
C27_FailedSaveLeavesPrefixAndNoOldRows ==
  [][(Handles("save") /\ last'.status = 500 /\ last'.userId # NoUser) =>
       /\ NothingFurther
       /\ checklists' \cap ChecklistsOf(Db, last'.userId) = {}
       /\ PreStateBackedUp]_vars

\* C27, amended: a Save answered 500 after its backup step has inserted nothing
\* after the error and no completion row, and the state of before the Save is
\* in a backup; the rows of before the Save are gone when an insert failed and
\* are all still stored when the delete failed.
C27_FailedSaveLeavesPrefix ==
  [][(Handles("save") /\ last'.status = 500 /\ last'.userId # NoUser) =>
       /\ NothingFurther
       /\ PreStateBackedUp
       /\ IF last'.req.failAt = 0
          THEN /\ NewChecklists = {}
               /\ <<checklists', folders', items', completions'>> =
                    <<checklists, folders, items, completions>>
          ELSE checklists' \cap ChecklistsOf(Db, last'.userId) = {}]_vars

\* a Save that carried completions failed at its second statement: the new
\* checklist is stored without folder and item, the old one is in a backup
C27_Witness ==
  /\ last.req.action = "save"
  /\ last.status = 500
  /\ last.req.failAt = 2
  /\ last.req.comp # <<>>
  /\ Cardinality(checklists) = 1
  /\ folders = {}
  /\ items = {}
  /\ \E b \in BackupsOf(Db, last.userId) : Len(b.data.items) > 0

\* C28: a restore_backup in which the delete or an insert met a store error is
\* answered 500.
C28_FailedRestoreIsAnError ==
  [][(/\ Handles("restore_backup")
      /\ last'.userId # NoUser
      /\ last'.req.failAt # NoFailure
      /\ LET found == FetchBackup(Db, last'.userId, last'.req.backupId, appDataHasId)
         IN  /\ Cardinality(found) = 1
             /\ RestoredWithFault(Db, last'.userId, CHOOSE r \in found : TRUE,
                                  appDataHasId, last'.req.failAt).left = NoFailure) =>
       last'.status = 500]_vars

----------------------------------------------------------------------------
(* C29, C30: Saves of one user that overlap *)

InProgress(run) == run.pc \notin {"idle", "done"}

NamesOf(C) == {C[k].name : k \in DOMAIN C}

\* C29: two Saves of the same user are not serialised. A request in progress
\* can always run its next statement, whatever the other request is doing, and
\* once both have answered every checklist the user has was inserted by one
\* of the two: the rows from before them are gone, and what is stored need
\* not be the checklists of either body alone.
C29_SavesAreNotSerialised ==
  /\ \A r \in Slots :
       (InProgress(running[r]) /\ running[r].pc # "respond")
         => ENABLED RaceStatement(r, RaceUser)
  /\ (\A r \in Slots : running[r].pc = "done") =>
       \A c \in ChecklistsOf(Db, RaceUser) :
         /\ \E r \in Slots : c.id >= running[r].start /\ c.name \in NamesOf(running[r].C)
         /\ \A r \in Slots : c.id >= running[r].start

\* both requests answered 200 and the checklists of both bodies are stored
C29_Witness ==
  /\ \A r \in Slots : running[r].pc = "done" /\ running[r].status = 200
  /\ running[1].C # running[2].C
  /\ {c.name : c \in ChecklistsOf(Db, RaceUser)} = NamesOf(running[1].C) \cup NamesOf(running[2].C)

\* the response holds every checklist of C with all its folders and items
CompleteSet(got, C) ==
  /\ Len(got) = Len(C)
  /\ \A k \in DOMAIN C :
       /\ got[k].name = C[k].name
       /\ Len(got[k].folders) = Len(C[k].folders)
       /\ Len(got[k].items) = Len(C[k].items)

\* C30: a Save is atomic in effect: while no other Save of the user is being
\* handled, every Load that overlaps or follows the Save returns the complete
\* set from before the Save or the complete set C, never an empty or partial one.
C30_LoadSeesOldOrNewSet ==
  \A r \in Slots :
    (/\ running[r].pc # "idle"
     /\ \A o \in Slots \ {r} : running[o].pc = "idle"
     /\ last.req.action = "load"
     /\ last.status = 200)
      => \/ last.resp.checklists \in running[r].before
         \/ CompleteSet(last.resp.checklists, running[r].C)

----------------------------------------------------------------------------
(* C31..C36: what Load leaves alone, and what Save stores *)

\* the step is a Load that was answered with the user's data
LoadAnswered == last'.req.action = "load" /\ last'.status = 200

\* no table is written
NoWrite == UNCHANGED <<checklists, folders, items, completions, appData, appDataBackups>>

\* C31: a Load performs no write, the rows and backups of every user are the
\* same before and after it, and its result is the only one a Load on this
\* store state and this date can return.
C31_LoadIsPure ==
  [][LoadAnswered =>
       /\ NoWrite
       /\ \A b \in LoadBodies(Db, last'.userId, today) :
            /\ b.checklists = last'.resp.checklists
            /\ b.completions = last'.resp.completions]_vars

\* the checklists of a response with their folders and items as sets
RowsOf(docs) ==
  {[id |-> docs[k].id, name |-> docs[k].name, position |-> docs[k].position,
    folders |-> Range(docs[k].folders), items |-> Range(docs[k].items)] :
     k \in DOMAIN docs}

\* no two rows the queries of Load sort have the same sort key
NoTies(db, u) ==
  /\ \A c, d \in ChecklistsOf(db, u) : c.position = d.position => c = d
  /\ \A f, g \in FoldersIn(db, Ids(ChecklistsOf(db, u))) :
       (f.checklist_id = g.checklist_id /\ f.sort_order = g.sort_order) => f = g
  /\ \A i, j \in ItemsIn(db, Ids(ChecklistsOf(db, u))) :
       (i.checklist_id = j.checklist_id /\ i.sort_order = j.sort_order) => i = j

\* C31 (amended): a Load performs no write; every result a Load on this store
\* state and this date can return holds the same checklists, folders, items and
\* completions, and is the same result when no two rows share a sort key.
C31_LoadWritesNothing ==
  [][LoadAnswered =>
       /\ NoWrite
       /\ \A b \in LoadBodies(Db, last'.userId, today) :
            /\ b.completions = last'.resp.completions
            /\ RowsOf(b.checklists) = RowsOf(last'.resp.checklists)
            /\ NoTies(Db, last'.userId) => b.checklists = last'.resp.checklists]_vars

\* a Load answered with rows that share a sort key, while the other user has rows
C31_Witness ==
  /\ last.req.action = "load"
  /\ last.status = 200
  /\ Cardinality(LoadBodies(Db, last.userId, today)) > 1
  /\ \E u \in Users \ {last.userId} : ChecklistsOf(Db, u) # {}

\* the step is a Save or a RestoreBackup of a user who owns no checklist
WriteWithNothingOwned ==
  /\ last'.req.action \in {"save", "restore_backup"}
  /\ last'.userId # NoUser
  /\ ChecklistsOf(Db, last'.userId) = {}

\* C32: a Save or RestoreBackup issued while the user owns no checklist writes
\* no backup and evicts none: the backups of the user, and every other row of
\* app_data, are the same after it.
C32_NothingOwnedNothingBackedUp ==
  [][WriteWithNothingOwned =>
       /\ appData' = appData
       /\ seq'.app = seq.app]_vars

\* a restore answered 200 right after the user saved an empty array
C32_Witness ==
  /\ last.req.action = "restore_backup"
  /\ last.status = 200
  /\ prev.action = "save"
  /\ prev.userId = last.userId
  /\ prev.C = <<>>
  /\ BackupsOf(Db, last.userId) # {}
  /\ ChecklistsOf(Db, last.userId) # {}

\* the latest request is a Save of a checklists array that was answered 200
SaveSucceeded ==
  /\ last.req.action = "save"
  /\ last.req.hasArray
  /\ last.status = 200

\* C33: after a successful Save(U, C) the user has |C| checklists, the i-th of
\* C stored at position i - 1 (0-based) with its name, and the value sent
\* under `position` stored as role, 'General' when none was sent.
C33_PositionsAreInputOrder ==
  SaveSucceeded =>
    LET rows == ById(ChecklistsOf(Db, last.userId))
        C == last.req.C
    IN  /\ Len(rows) = Len(C)
        /\ {rows[k].position : k \in DOMAIN rows} = 0..(Len(C) - 1)
        /\ \A k \in DOMAIN C :
             /\ rows[k].position = k - 1
             /\ rows[k].name = C[k].name
             /\ rows[k].role = IF C[k].position = Undefined THEN General
                                ELSE C[k].position

\* a Save of two checklists, one sent without a label
C33_Witness ==
  /\ SaveSucceeded
  /\ Len(last.req.C) = 2
  /\ \E k \in DOMAIN last.req.C : last.req.C[k].position = Undefined
  /\ \E k \in DOMAIN last.req.C : last.req.C[k].position # Undefined

\* the rows stored for checklist k of the body of the latest Save, in the
\* order they were inserted
StoredChecklist(k) == ById(ChecklistsOf(Db, last.userId))[k]
StoredFolders(k) == ById(FoldersIn(Db, {StoredChecklist(k).id}))
StoredItems(k) == ById(ItemsIn(Db, {StoredChecklist(k).id}))

\* C34: after a successful Save every item whose folderId equals the client
\* id of a folder listed in the same checklist, whatever value that id has, is
\* stored under the row created for that folder.
C34_ItemFolderIsTheFolderRow ==
  SaveSucceeded =>
    \A k \in DOMAIN last.req.C :
      LET doc == last.req.C[k]
      IN  \A j \in DOMAIN doc.items, m \in DOMAIN doc.folders :
            doc.items[j].folderId = doc.folders[m].id
              => StoredItems(k)[j].folder_id = StoredFolders(k)[m].id

\* C35: in every state Save and RestoreBackup reach, the folder_id of each
\* item is null or the id of a stored folder of the item's own checklist.
C35_ItemFolderIsInItsChecklist ==
  \A i \in items :
    \/ i.folder_id = 0
    \/ \E f \in folders : f.id = i.folder_id /\ f.checklist_id = i.checklist_id

\* a restore has put an item back under a folder, next to an item of another
\* checklist of the same user or of the other user
C35_Witness ==
  /\ last.req.action = "restore_backup"
  /\ last.status = 200
  /\ \E i \in ItemsIn(Db, Ids(ChecklistsOf(Db, last.userId))) : i.folder_id # 0
  /\ \E u \in Users \ {last.userId} :
       \E i \in ItemsIn(Db, Ids(ChecklistsOf(Db, u))) : i.folder_id # 0

\* the body of the latest Save is a Load response: its checklists carry ids
SavedBackALoad ==
  /\ SaveSucceeded
  /\ last.req.C # <<>>
  /\ \A k \in DOMAIN last.req.C : "id" \in DOMAIN last.req.C[k]

\* C36: after saving back exactly the checklists a Load returned, every result
\* a Load can return holds the same checklists in the same order, with the same
\* names, role labels, folders, items and item-to-folder nesting; only the ids
\* are new.
C36_SaveBackKeepsLoad ==
  SavedBackALoad =>
    \A b \in LoadBodies(Db, last.userId, today) :
      /\ Len(b.checklists) = Len(last.req.C)
      /\ \A k \in DOMAIN last.req.C :
           /\ LoadedShape(b.checklists[k], 0) = LoadedShape(last.req.C[k], 0)
           /\ b.checklists[k].id # last.req.C[k].id

\* a loaded checklist with a folder, an item in it and an item outside was
\* saved back
C36_Witness ==
  /\ SavedBackALoad
  /\ \E k \in DOMAIN last.req.C :
       /\ \E j \in DOMAIN last.req.C[k].items : last.req.C[k].items[j].folderId # 0
       /\ Len(last.req.C[k].folders) > 0
  /\ \E k \in DOMAIN last.req.C :
       \E j \in DOMAIN last.req.C[k].items : last.req.C[k].items[j].folderId = 0

====
